---- MODULE Spec2Model ----
(***************************************************************************)
(* Model of polykit.core.ulid: the Crockford base-32 ULID codec (ULID) and *)
(* the thread-safe monotonic generator (ULIDGenerator) with its two        *)
(* process-wide singleton accessors.                                       *)
(*                                                                         *)
(* Representation.  A Python int holding a millisecond timestamp is kept   *)
(* as a pair <<hi, lo>> with value hi * 2^24 + lo and 0 <= lo < 2^24, so   *)
(* that 48-bit values stay inside TLC's 32-bit integers.  A bytes /        *)
(* bytearray value is a sequence of integers in 0..255, a str is a         *)
(* sequence of one-character strings.                                      *)
(***************************************************************************)
EXTENDS Integers, Sequences, FiniteSets, TLC

(***************************************************************************)
(* Bounds of the model.                                                    *)
(***************************************************************************)
NThreads == 2
NTasks == 2
MaxCalls == 3
SharedCalls == 2
FairCalls == 2

(***************************************************************************)
(* Integer helpers: Python's <<, >>, & and | on non-negative ints.  Shr    *)
(* (floor division) and Mask (non-negative remainder) are Python's >> and  *)
(* & with a mask of low bits on negative ints as well.                     *)
(***************************************************************************)
Limb == 2^24

Shl(x, n) == x * 2^n

Shr(x, n) == x \div 2^n

RECURSIVE BitAnd(_, _)
BitAnd(a, b) ==
    IF a = 0 \/ b = 0 THEN 0
    ELSE (IF a % 2 = 1 /\ b % 2 = 1 THEN 1 ELSE 0) + 2 * BitAnd(a \div 2, b \div 2)

(* x & ((1 << k) - 1): the low k bits of x. *)
Mask(x, k) == x % 2^k

(* a | b = a + b - (a & b) *)
BitOr(a, b) == a + b - BitAnd(a, b)

(* Timestamps as <<hi, lo>> pairs. *)
TsLess(a, b) == a[1] < b[1] \/ (a[1] = b[1] /\ a[2] < b[2])

TsZero == <<0, 0>>

(* Variant of the byte extraction that clamps the timestamp to             *)
(* 0 .. 2^48-1 first.                                                      *)
TsByte_Clamped(ts, k) ==
    IF ts[1] < 0 THEN 0
    ELSE IF ts[1] >= Limb THEN 255
    ELSE IF k < 3 THEN Mask(Shr(ts[2], 8 * k), 8)
    ELSE Mask(Shr(ts[1], 8 * (k - 3)), 8)

(* (ts >> (8*k)) & 0xFF for k in 0..5, on the pair representation. *)
TsByte(ts, k) ==
    IF k < 3 THEN Mask(Shr(ts[2], 8 * k), 8)
    ELSE Mask(Shr(ts[1], 8 * (k - 3)), 8)

(* bytes.__lt__: lexicographic comparison of byte strings. *)
RECURSIVE BytesLess(_, _)
BytesLess(a, b) ==
    IF b = <<>> THEN FALSE
    ELSE IF a = <<>> THEN TRUE
    ELSE IF Head(a) # Head(b) THEN Head(a) < Head(b)
    ELSE BytesLess(Tail(a), Tail(b))

(***************************************************************************)
(* class ULID                                                              *)
(***************************************************************************)
LENGTH == 26

(* Variant of the alphabet with two characters out of code-point order. *)
ALPHABET_Unsorted ==
    << "0", "1", "2", "3", "4", "5", "6", "7", "8", "A",
       "9", "B", "C", "D", "E", "F", "G", "H", "J", "K",
       "M", "N", "P", "Q", "R", "S", "T", "V", "W", "X", "Y", "Z" >>

ALPHABET ==
    << "0", "1", "2", "3", "4", "5", "6", "7", "8", "9",
       "A", "B", "C", "D", "E", "F", "G", "H", "J", "K",
       "M", "N", "P", "Q", "R", "S", "T", "V", "W", "X", "Y", "Z" >>

(* str.lower() on one character. *)
Lower(c) ==
    CASE c = "A" -> "a" [] c = "B" -> "b" [] c = "C" -> "c" [] c = "D" -> "d"
      [] c = "E" -> "e" [] c = "F" -> "f" [] c = "G" -> "g" [] c = "H" -> "h"
      [] c = "I" -> "i" [] c = "J" -> "j" [] c = "K" -> "k" [] c = "L" -> "l"
      [] c = "M" -> "m" [] c = "N" -> "n" [] c = "O" -> "o" [] c = "P" -> "p"
      [] c = "Q" -> "q" [] c = "R" -> "r" [] c = "S" -> "s" [] c = "T" -> "t"
      [] c = "U" -> "u" [] c = "V" -> "v" [] c = "W" -> "w" [] c = "X" -> "x"
      [] c = "Y" -> "y" [] c = "Z" -> "z" [] OTHER -> c

(* _init_decode_table: the alphabet in both cases, then the aliases. *)
(* Variant of the decode table without the lowercase letters and aliases. *)
DECODE_TABLE_UpperOnly == [c \in {ALPHABET[i] : i \in 1..32} |->
                             (CHOOSE i \in 1..32 : ALPHABET[i] = c) - 1]

DECODE_TABLE ==
    LET std == [c \in {ALPHABET[i] : i \in 1..32} \cup {Lower(ALPHABET[i]) : i \in 1..32} |->
                   (CHOOSE i \in 1..32 : ALPHABET[i] = c \/ Lower(ALPHABET[i]) = c) - 1]
        ones == [c \in {"i", "I", "l", "L"} |-> 1]
        zeros == [c \in {"o", "O"} |-> 0]
    IN  zeros @@ ones @@ std

(* Variant of the table lookup that yields 0 for a character not in the table. *)
TableGet_DefaultZero(c) == IF c \in DOMAIN DECODE_TABLE THEN DECODE_TABLE[c] ELSE 0

(* dict.get: the value, or -1 for None. *)
TableGet(c) == IF c \in DOMAIN DECODE_TABLE THEN DECODE_TABLE[c] ELSE -1

(* A raised ValueError, in place of the value a call would have returned. *)
ValueError == << "ValueError" >>

(* _shift_left(bytes_data, bits): the loop from the last byte to the first. *)
RECURSIVE ShiftLoop(_, _, _, _)
ShiftLoop(bytes_data, bits, i, carry) ==
    IF i < 1 THEN bytes_data
    ELSE LET shifted == BitOr(Shl(bytes_data[i], bits), carry)
         IN  ShiftLoop([bytes_data EXCEPT ![i] = Mask(shifted, 8)],
                       bits, i - 1, Shr(shifted, 8))

(* Variant of _shift_left that drops the bits carried between bytes.       *)
shift_left_NoCarry(bytes_data, bits) ==
    [i \in 1..Len(bytes_data) |-> Mask(Shl(bytes_data[i], bits), 8)]

shift_left(bytes_data, bits) ==
    IF ~(0 < bits /\ bits < 8) THEN ValueError
    ELSE ShiftLoop(bytes_data, bits, Len(bytes_data), 0)

(* The results of decode: None, a DecodedULID, or an exception leaving the call. *)
NoneULID ==
    [is_none |-> TRUE, raised |-> FALSE, timestamp_ms |-> TsZero, random_bytes |-> <<>>]

DecodedULID(timestamp_ms, random_bytes) ==
    [is_none |-> FALSE, raised |-> FALSE,
     timestamp_ms |-> timestamp_ms, random_bytes |-> random_bytes]

RaisedULID ==
    [is_none |-> FALSE, raised |-> TRUE, timestamp_ms |-> TsZero, random_bytes |-> <<>>]

(* The character loop of decode: <<>> stands for the early return None.      *)
(* (Len(acc) is read at every iteration so that the accumulator is evaluated *)
(* iteration by iteration, as the loop does.)                                *)
RECURSIVE DecodeLoop(_, _, _)
DecodeLoop(ulid, k, acc) ==
    IF k > Len(ulid) \/ Len(acc) = 0 \/ acc = ValueError THEN acc
    ELSE LET value == TableGet(ulid[k])
             shifted == shift_left(acc, 5)
         IN  IF value = -1 THEN <<>>
             ELSE IF shifted = ValueError THEN ValueError
             ELSE DecodeLoop(ulid, k + 1, [shifted EXCEPT ![17] = BitOr(@, value)])

(* timestamp_ms = (timestamp_ms << 8) | bytes_data[i] for i in range(6). *)
TsFromBytes(b) ==
    << BitOr(Shl(BitOr(Shl(b[1], 8), b[2]), 8), b[3]),
       BitOr(Shl(BitOr(Shl(b[4], 8), b[5]), 8), b[6]) >>

(* Variant of decode without the test of the top accumulator byte. *)
decode_NoOverflowCheck(ulid) ==
    IF Len(ulid) # LENGTH THEN NoneULID
    ELSE LET acc == DecodeLoop(ulid, 1, [i \in 1..17 |-> 0])
         IN  IF acc = <<>> THEN NoneULID
             ELSE IF acc = ValueError THEN RaisedULID
             ELSE LET bytes_data == SubSeq(acc, 2, 17)
                  IN  DecodedULID(TsFromBytes(bytes_data), SubSeq(bytes_data, 7, 16))

decode(ulid) ==
    IF Len(ulid) # LENGTH THEN NoneULID
    ELSE LET acc == DecodeLoop(ulid, 1, [i \in 1..17 |-> 0])
         IN  IF acc = <<>> THEN NoneULID
             ELSE IF acc = ValueError THEN RaisedULID
             ELSE IF acc[1] # 0 THEN NoneULID
             ELSE LET bytes_data == SubSeq(acc, 2, 17)
                  IN  DecodedULID(TsFromBytes(bytes_data), SubSeq(bytes_data, 7, 16))

(* The inner while loop of encode: emit characters while bits_left >= 5. *)
RECURSIVE EncodeWhile(_, _, _)
EncodeWhile(output, buffer, bits_left) ==
    IF bits_left < 5 THEN [output |-> output, buffer |-> buffer, bits_left |-> bits_left]
    ELSE LET shift == bits_left - 5
             index == Mask(Shr(buffer, shift), 5)
             left  == bits_left - 5
         IN  EncodeWhile(Append(output, ALPHABET[index + 1]),
                         IF left = 0 THEN 0 ELSE Mask(buffer, left),
                         left)

(* The for loop of encode over the 16 bytes. *)
RECURSIVE EncodeFor(_, _, _, _, _)
EncodeFor(bytes_data, k, output, buffer, bits_left) ==
    IF k > Len(bytes_data) THEN output
    ELSE LET s == EncodeWhile(output, BitOr(Shl(buffer, 8), bytes_data[k]), bits_left + 8)
         IN  EncodeFor(bytes_data, k + 1, s.output, s.buffer, s.bits_left)

(* Variant of encode that pads or cuts random_bytes to 10 bytes instead of raising. *)
encode_PadRandom(timestamp_ms, random_bytes) ==
    LET bytes_data == << TsByte(timestamp_ms, 5), TsByte(timestamp_ms, 4),
                         TsByte(timestamp_ms, 3), TsByte(timestamp_ms, 2),
                         TsByte(timestamp_ms, 1), TsByte(timestamp_ms, 0) >>
                      \o SubSeq(random_bytes \o [i \in 1..10 |-> 0], 1, 10)
        output == EncodeFor(bytes_data, 1, <<>>, 0, 2)
    IN  IF Len(output) # LENGTH THEN ValueError ELSE output

(* Variant of encode that starts without the two prefix bits. *)
encode_NoPrefix(timestamp_ms, random_bytes) ==
    IF Len(random_bytes) # 10 THEN ValueError
    ELSE LET bytes_data == << TsByte(timestamp_ms, 5), TsByte(timestamp_ms, 4),
                              TsByte(timestamp_ms, 3), TsByte(timestamp_ms, 2),
                              TsByte(timestamp_ms, 1), TsByte(timestamp_ms, 0) >>
                           \o random_bytes
             output == EncodeFor(bytes_data, 1, <<>>, 0, 0)
         IN  IF Len(output) # LENGTH THEN ValueError ELSE output

encode(timestamp_ms, random_bytes) ==
    IF Len(random_bytes) # 10 THEN ValueError
    ELSE LET bytes_data == << TsByte(timestamp_ms, 5), TsByte(timestamp_ms, 4),
                              TsByte(timestamp_ms, 3), TsByte(timestamp_ms, 2),
                              TsByte(timestamp_ms, 1), TsByte(timestamp_ms, 0) >>
                           \o random_bytes
             output == EncodeFor(bytes_data, 1, <<>>, 0, 2)
         IN  IF Len(output) # LENGTH THEN ValueError ELSE output

(***************************************************************************)
(* Inputs.  Dates are the datetime arguments (or clock readings) of next() *)
(* in milliseconds relative to the epoch, the first one before the epoch;  *)
(* URandom holds the values os.urandom(10) is taken to return.             *)
(***************************************************************************)
Threads == 1..NThreads

ZeroRandom == [i \in 1..10 |-> 0]

AllFF == [i \in 1..10 |-> 255]

CarryRandom == [i \in 1..10 |-> IF i > 8 THEN 255 ELSE 0]

OneRandom == [i \in 1..10 |-> IF i = 10 THEN 1 ELSE 0]

Dates == { <<-1, Limb - 5>>, <<0, 1000000>> }

URandom == { AllFF, CarryRandom }

(* Arguments of seed(), as strings.                                        *)
(* "00000000000000000000000000": timestamp 0, randomness ten 0x00 bytes    *)
SeedZero ==
    << "0", "0", "0", "0", "0", "0", "0", "0", "0", "0", "0", "0", "0",
       "0", "0", "0", "0", "0", "0", "0", "0", "0", "0", "0", "0", "0" >>

(* "000000YGJ0ZZZZZZZZZZZZZZZZ": timestamp 1000000, randomness ten 0xFF    *)
SeedFF ==
    << "0", "0", "0", "0", "0", "0", "Y", "G", "J", "0", "Z", "Z", "Z",
       "Z", "Z", "Z", "Z", "Z", "Z", "Z", "Z", "Z", "Z", "Z", "Z", "Z" >>

(* "000000YGJ10000000000000001": timestamp 1000001, randomness 00..00 01   *)
SeedOne ==
    << "0", "0", "0", "0", "0", "0", "Y", "G", "J", "1", "0", "0", "0",
       "0", "0", "0", "0", "0", "0", "0", "0", "0", "0", "0", "0", "1" >>

(* 25 characters *)
SeedShort == SubSeq(SeedOne, 1, 25)

(* a character outside the decode table *)
SeedBadChar == <<"U">> \o Tail(SeedOne)

(* first character of value 8: the 130-bit value does not fit 128 bits *)
SeedOverflow == <<"8">> \o Tail(SeedOne)

SeedInputs == { SeedZero, SeedFF, SeedOne, SeedShort, SeedBadChar, SeedOverflow }

(* ULID.decode on each of the seed() arguments. *)
DecodedInputs == [s \in SeedInputs |-> decode(s)]

(***************************************************************************)
(* State.                                                                  *)
(*   gens      the ULIDGenerator objects constructed so far, in order of   *)
(*             construction: _lock (0 = free, else the holding thread),    *)
(*             _last_timestamp_ms, _last_random                            *)
(*   generator_instance, generator_lock    the module-level singleton      *)
(*   shared, shared_lock                   ULIDGenerator._shared           *)
(*             (an instance is its index in gens, 0 is None)               *)
(*   th        per thread: program counter and locals                      *)
(*   calls     number of calls started                                     *)
(*   log       history: the next()/seed() calls in the order in which they *)
(*             left the generator lock, the constructors run and the       *)
(*             accessor calls returned                                     *)
(*   codec     a direct caller of ULID.encode / ULID.decode: its inputs    *)
(*             and results                                                 *)
(*   pair      a caller that makes two codec calls and compares the        *)
(*             results: its two inputs, the two results                    *)
(*   meta      dsutil.tools.singleton: the Singleton metaclass's __locks   *)
(*             and __instances entries for one class, the Lock objects     *)
(*             made for it, the number of instances constructed, the       *)
(*             instances returned, and each calling thread's position      *)
(*   retry     sys.retry_on_exc: one decorated function: the arguments of  *)
(*             the decorator, its closure variables tries and delay, the   *)
(*             position of the running invocation with its calls of the    *)
(*             function and its sleeps so far, and the finished            *)
(*             invocations                                                 *)
(*   threader  dsutil.tools.thread: one LocalThreader and the thread that  *)
(*             uses it: the futures of the keyed tasks, the events of      *)
(*             event_dict, the keys of active_threads, the executor's      *)
(*             workers held by tasks without key, and the caller's         *)
(*             position                                                    *)
(***************************************************************************)
VARIABLES gens, generator_instance, generator_lock, shared, shared_lock,
          th, calls, log, codec, pair, meta, retry, threader

vars == <<gens, generator_instance, generator_lock, shared, shared_lock, th, calls, log, codec,
          pair, meta, retry, threader>>

(* The state of polykit.core.ulid and of the single codec caller. *)
ulid_state == <<gens, generator_instance, generator_lock, shared, shared_lock,
                th, calls, log, codec>>

(* The state outside the generator and the single codec call. *)
others == <<pair, meta, retry, threader>>

PairIdle == [pc |-> "none", a |-> <<>>, b |-> <<>>, result_a |-> <<>>, result_b |-> <<>>]

(* No lock and no instance registered for the class, no call under way. *)
MetaIdle ==
    [locks |-> 0, lock_objs |-> << >>, instances |-> 0, created |-> 0, calls |-> 0,
     returned |-> << >>,
     th |-> [t \in Threads |-> [pc |-> "idle", lock |-> 0, instance |-> 0]]]

(* retry_on_exc(E, tries, delay, backoff)(func), not yet invoked. *)
Decorated(tries, delay, backoff) ==
    [arg_tries |-> tries, arg_delay |-> delay, backoff |-> backoff,
     tries |-> tries, delay |-> delay,
     pc |-> "idle", attempts |-> 0, waits |-> << >>, done |-> << >>]

Keys == 1..NTasks

(* ThreadPoolExecutor(max_workers=10) *)
max_workers == 10

(* LocalThreader.__init__, with busy workers taken by tasks started without key. *)
NewThreader(busy) ==
    [pc |-> "start", k |-> 1, busy |-> busy,
     fut |-> [k \in Keys |-> "none"], event |-> [k \in Keys |-> "absent"],
     active_threads |-> {}, timed_out |-> {}]

OthersIdle ==
    /\ pair = PairIdle
    /\ meta = MetaIdle
    /\ retry = Decorated(4, 3, 2)
    /\ threader = NewThreader(0)

(* The module-level and class-level singleton slots with their locks. *)
singletons == <<generator_instance, generator_lock, shared, shared_lock>>

CodecIdle ==
    [pc |-> "none", timestamp_ms |-> TsZero, random_bytes |-> ZeroRandom,
     text |-> << >>, decoded |-> NoneULID]

(* Variant of __init__ that allocates nine bytes. *)
NewGenerator_NineBytes ==
    [lock |-> 0, last_timestamp_ms |-> TsZero, last_random |-> [i \in 1..9 |-> 0]]

(* ULIDGenerator.__init__ *)
NewGenerator ==
    [lock |-> 0, last_timestamp_ms |-> TsZero, last_random |-> ZeroRandom]

IdleThread ==
    [pc |-> "idle", via |-> "none", self |-> 0, now_ms |-> TsZero,
     existing_ulid |-> <<>>, decoded |-> NoneULID,
     pre_ts |-> TsZero, pre_random |-> ZeroRandom, path |-> "none"]

(* int(max(0, date.timestamp()) * 1000) *)
NowMs(date) == IF date[1] < 0 THEN TsZero ELSE date


(***************************************************************************)
(* ULIDGenerator.next                                                      *)
(***************************************************************************)
(* lines 250-253: the time is read and converted before the lock is taken. *)
NextBeginFrom(t, dates) ==
    /\ th[t].pc = "next_begin"
    /\ \E date \in dates :
          th' = [th EXCEPT ![t].now_ms = NowMs(date), ![t].pc = "next_lock"]
    /\ UNCHANGED <<gens, singletons, calls, log, codec, others>>

NextBegin(t) == NextBeginFrom(t, Dates)

(* Variant of line 255 that enters the block without waiting for the lock. *)
NextAcquire_NoWait(t) ==
    /\ th[t].pc = "next_lock"
    /\ gens' = [gens EXCEPT ![th[t].self].lock = t]
    /\ th' = [th EXCEPT ![t].pc = "next_cmp"]
    /\ UNCHANGED <<singletons, calls, log, codec, others>>

(* line 255: with self._lock *)
NextAcquire(t) ==
    /\ th[t].pc = "next_lock"
    /\ gens[th[t].self].lock = 0
    /\ gens' = [gens EXCEPT ![th[t].self].lock = t]
    /\ th' = [th EXCEPT ![t].pc = "next_cmp"]
    /\ UNCHANGED <<singletons, calls, log, codec, others>>

(* Variant of the test at line 256 with >= in place of >.                  *)
TimeAdvanced_OrEqual(now_ms, last_timestamp_ms) == ~TsLess(now_ms, last_timestamp_ms)

(* Variant of the test at line 256 that takes every time as an advance.    *)
TimeAdvanced_Always(now_ms, last_timestamp_ms) == TRUE

(* line 256: the test that chooses between fresh randomness and increment. *)
TimeAdvanced(now_ms, last_timestamp_ms) == TsLess(last_timestamp_ms, now_ms)

(* lines 256-258 (time advanced: store the timestamp) or 260-262 (enter    *)
(* _increment_random).                                                     *)
NextCompare(t) ==
    LET g == th[t].self IN
    /\ th[t].pc = "next_cmp"
    /\ IF TimeAdvanced(th[t].now_ms, gens[g].last_timestamp_ms)
       THEN /\ gens' = [gens EXCEPT ![g].last_timestamp_ms = th[t].now_ms]
            /\ th' = [th EXCEPT ![t].pc = "next_fresh", ![t].path = "advance",
                                ![t].pre_ts = gens[g].last_timestamp_ms,
                                ![t].pre_random = gens[g].last_random]
       ELSE /\ gens' = gens
            /\ th' = [th EXCEPT ![t].pc = "next_incr", ![t].path = "increment",
                                ![t].pre_ts = gens[g].last_timestamp_ms,
                                ![t].pre_random = gens[g].last_random]
    /\ UNCHANGED <<singletons, calls, log, codec, others>>

(* line 259: self._last_random = bytearray(os.urandom(10)) *)
NextFresh(t) ==
    LET g == th[t].self IN
    /\ th[t].pc = "next_fresh"
    /\ \E r \in URandom : gens' = [gens EXCEPT ![g].last_random = r]
    /\ th' = [th EXCEPT ![t].pc = "next_encode"]
    /\ UNCHANGED <<singletons, calls, log, codec, others>>

(* Variant of the increment loop that adds one to the last byte without carry. *)
IncrementLoop_NoCarry(random, i) ==
    [bytes |-> [random EXCEPT ![i] = Mask(random[i] + 1, 8)], overflow |-> FALSE]

(* _increment_random, lines 296-301: the loop from byte 9 down to byte 0.  *)
(* Yields the bytes and whether the loop ran off the end (overflow).       *)
RECURSIVE IncrementLoop(_, _)
IncrementLoop(random, i) ==
    IF i < 1 THEN [bytes |-> random, overflow |-> TRUE]
    ELSE IF random[i] = 255 THEN IncrementLoop([random EXCEPT ![i] = 0], i - 1)
    ELSE [bytes |-> [random EXCEPT ![i] = Mask(random[i] + 1, 8)], overflow |-> FALSE]

(* line 262 with lines 293-301 *)
NextIncrement(t) ==
    LET g == th[t].self
        r == IncrementLoop(gens[g].last_random, 10)
    IN
    /\ th[t].pc = "next_incr"
    /\ gens' = [gens EXCEPT ![g].last_random = r.bytes]
    /\ th' = [th EXCEPT ![t].pc = IF r.overflow THEN "next_reseed" ELSE "next_encode"]
    /\ UNCHANGED <<singletons, calls, log, codec, others>>

(* line 304: overflow, reseed with fresh randomness *)
NextReseed(t) ==
    LET g == th[t].self IN
    /\ th[t].pc = "next_reseed"
    /\ \E r \in URandom : gens' = [gens EXCEPT ![g].last_random = r]
    /\ th' = [th EXCEPT ![t].pc = "next_encode", ![t].path = "overflow"]
    /\ UNCHANGED <<singletons, calls, log, codec, others>>

(* line 264: encode under the lock, return, leave the with block.          *)
NextReturn(t) ==
    LET g == th[t].self
        ulid == encode(gens[g].last_timestamp_ms, gens[g].last_random)
    IN
    /\ th[t].pc = "next_encode"
    /\ gens' = [gens EXCEPT ![g].lock = 0]
    /\ log' = Append(log, [op |-> "next", gen |-> g, via |-> th[t].via,
                           now_ms |-> th[t].now_ms, path |-> th[t].path,
                           pre_ts |-> th[t].pre_ts, pre_random |-> th[t].pre_random,
                           ts |-> gens'[g].last_timestamp_ms,
                           random |-> gens'[g].last_random,
                           ulid |-> ulid])
    /\ th' = [th EXCEPT ![t] = IdleThread]
    /\ UNCHANGED <<singletons, calls, codec, others>>

(***************************************************************************)
(* ULIDGenerator.seed                                                      *)
(***************************************************************************)
SeedEvent(t, g, existing_ulid, path, pre, post) ==
    [op |-> "seed", gen |-> g, via |-> th[t].via,
     now_ms |-> TsZero, path |-> path,
     pre_ts |-> pre.last_timestamp_ms, pre_random |-> pre.last_random,
     ts |-> post.last_timestamp_ms, random |-> post.last_random,
     ulid |-> existing_ulid]

(* Variant of the head of seed() without the early return on None.         *)
SeedBegin_NoNoneCheck(t) ==
    /\ th[t].pc = "seed_begin"
    /\ UNCHANGED <<gens, singletons, calls, log, codec, others>>
    /\ \E existing_ulid \in SeedInputs :
          th' = [th EXCEPT ![t].existing_ulid = existing_ulid,
                           ![t].decoded = DecodedInputs[existing_ulid],
                           ![t].pc = "seed_lock"]

(* lines 275-277: decode the argument outside the lock; return at once on   *)
(* None.                                                                   *)
SeedBeginFrom(t, inputs, decoded_inputs) ==
    /\ th[t].pc = "seed_begin"
    /\ UNCHANGED <<gens, singletons, calls, codec, others>>
    /\ \E existing_ulid \in inputs :
          LET g == th[t].self
              decoded == decoded_inputs[existing_ulid]
          IN  IF decoded.is_none
              THEN /\ log' = Append(log, SeedEvent(t, g, existing_ulid, "invalid",
                                                   gens[g], gens'[g]))
                   /\ th' = [th EXCEPT ![t] = IdleThread]
              ELSE /\ log' = log
                   /\ th' = [th EXCEPT ![t].existing_ulid = existing_ulid,
                                       ![t].decoded = decoded, ![t].pc = "seed_lock"]

SeedBegin(t) == SeedBeginFrom(t, SeedInputs, DecodedInputs)

(* line 279: with self._lock *)
SeedAcquire(t) ==
    /\ th[t].pc = "seed_lock"
    /\ gens[th[t].self].lock = 0
    /\ gens' = [gens EXCEPT ![th[t].self].lock = t]
    /\ th' = [th EXCEPT ![t].pc = "seed_cmp"]
    /\ UNCHANGED <<singletons, calls, log, codec, others>>

(* Variant of should_replace that always replaces. *)
ShouldReplace_Always(decoded, last_timestamp_ms, last_random) == TRUE

(* Variant of should_replace that takes an equal timestamp as newer        *)
(* whatever the random bytes are.                                          *)
ShouldReplace_IgnoreRandom(decoded, last_timestamp_ms, last_random) ==
    ~TsLess(decoded.timestamp_ms, last_timestamp_ms)

(* lines 281-287: should_replace *)
ShouldReplace(decoded, last_timestamp_ms, last_random) ==
    IF TsLess(last_timestamp_ms, decoded.timestamp_ms) THEN TRUE
    ELSE IF decoded.timestamp_ms = last_timestamp_ms
         THEN BytesLess(last_random, decoded.random_bytes)
    ELSE FALSE

(* lines 281-290: compute should_replace; if set, store the timestamp.     *)
(* A decoded value of None would raise at line 283 and leave the block.    *)
SeedCompare(t) ==
    LET g == th[t].self IN
    /\ th[t].pc = "seed_cmp"
    /\ IF th[t].decoded.is_none
       THEN /\ gens' = gens
            /\ th' = [th EXCEPT ![t].pc = "seed_exit", ![t].path = "raised",
                                ![t].pre_ts = gens[g].last_timestamp_ms,
                                ![t].pre_random = gens[g].last_random]
       ELSE IF ShouldReplace(th[t].decoded, gens[g].last_timestamp_ms, gens[g].last_random)
       THEN /\ gens' = [gens EXCEPT ![g].last_timestamp_ms = th[t].decoded.timestamp_ms]
            /\ th' = [th EXCEPT ![t].pc = "seed_random", ![t].path = "replace",
                                ![t].pre_ts = gens[g].last_timestamp_ms,
                                ![t].pre_random = gens[g].last_random]
       ELSE /\ gens' = gens
            /\ th' = [th EXCEPT ![t].pc = "seed_exit", ![t].path = "keep",
                                ![t].pre_ts = gens[g].last_timestamp_ms,
                                ![t].pre_random = gens[g].last_random]
    /\ UNCHANGED <<singletons, calls, log, codec, others>>

(* line 291: self._last_random = bytearray(decoded.random_bytes) *)
SeedRandom(t) ==
    LET g == th[t].self IN
    /\ th[t].pc = "seed_random"
    /\ gens' = [gens EXCEPT ![g].last_random = th[t].decoded.random_bytes]
    /\ th' = [th EXCEPT ![t].pc = "seed_exit"]
    /\ UNCHANGED <<singletons, calls, log, codec, others>>

(* end of the with block: release the lock and return None.                *)
SeedExit(t) ==
    LET g == th[t].self IN
    /\ th[t].pc = "seed_exit"
    /\ gens' = [gens EXCEPT ![g].lock = 0]
    /\ log' = Append(log, SeedEvent(t, g, th[t].existing_ulid, th[t].path,
                                    [last_timestamp_ms |-> th[t].pre_ts,
                                     last_random |-> th[t].pre_random],
                                    gens'[g]))
    /\ th' = [th EXCEPT ![t] = IdleThread]
    /\ UNCHANGED <<singletons, calls, codec, others>>

(***************************************************************************)
(* Callers of one generator object g = ULIDGenerator() shared by all       *)
(* threads: each call is g.next(date) or g.seed(x).                        *)
(***************************************************************************)
CallNext(t) ==
    /\ th[t].pc = "idle"
    /\ calls < MaxCalls
    /\ calls' = calls + 1
    /\ th' = [th EXCEPT ![t].pc = "next_begin", ![t].self = 1, ![t].via = "direct"]
    /\ UNCHANGED <<gens, singletons, log, codec, others>>

CallSeed(t) ==
    /\ th[t].pc = "idle"
    /\ calls < MaxCalls
    /\ calls' = calls + 1
    /\ th' = [th EXCEPT ![t].pc = "seed_begin", ![t].self = 1, ![t].via = "direct"]
    /\ UNCHANGED <<gens, singletons, log, codec, others>>

Init ==
    /\ gens = << NewGenerator >>
    /\ generator_instance = 0
    /\ generator_lock = 0
    /\ shared = 0
    /\ shared_lock = 0
    /\ th = [t \in Threads |-> IdleThread]
    /\ calls = 0
    /\ log = << >>
    /\ codec = CodecIdle
    /\ OthersIdle

Next ==
    \E t \in Threads :
        \/ CallNext(t)
        \/ CallSeed(t)
        \/ NextBegin(t)
        \/ NextAcquire(t)
        \/ NextCompare(t)
        \/ NextFresh(t)
        \/ NextIncrement(t)
        \/ NextReseed(t)
        \/ NextReturn(t)
        \/ SeedBegin(t)
        \/ SeedAcquire(t)
        \/ SeedCompare(t)
        \/ SeedRandom(t)
        \/ SeedExit(t)

Spec == Init /\ [][Next]_vars

(***************************************************************************)
(* The same callers where os.urandom(10) may also raise (OSError or        *)
(* NotImplementedError when no source of randomness is available).         *)
(***************************************************************************)
(* line 259 or line 304 raises: the exception leaves the with block, which *)
(* releases the lock, and propagates out of next(); the stores made before *)
(* it (line 258, or the bytes zeroed in place at line 298) remain.         *)
NextUrandomRaises(t) ==
    LET g == th[t].self IN
    /\ th[t].pc \in {"next_fresh", "next_reseed"}
    /\ gens' = [gens EXCEPT ![g].lock = 0]
    /\ log' = Append(log, [op |-> "next_raised", gen |-> g, via |-> th[t].via,
                           now_ms |-> th[t].now_ms, path |-> th[t].path,
                           pre_ts |-> th[t].pre_ts, pre_random |-> th[t].pre_random,
                           ts |-> gens[g].last_timestamp_ms,
                           random |-> gens[g].last_random,
                           ulid |-> << >>])
    /\ th' = [th EXCEPT ![t] = IdleThread]
    /\ UNCHANGED <<singletons, calls, codec, others>>

NextRaise ==
    \E t \in Threads :
        \/ CallNext(t)
        \/ CallSeed(t)
        \/ NextBegin(t)
        \/ NextAcquire(t)
        \/ NextCompare(t)
        \/ NextFresh(t)
        \/ NextIncrement(t)
        \/ NextReseed(t)
        \/ NextUrandomRaises(t)
        \/ NextReturn(t)
        \/ SeedBegin(t)
        \/ SeedAcquire(t)
        \/ SeedCompare(t)
        \/ SeedRandom(t)
        \/ SeedExit(t)

SpecRaise == Init /\ [][NextRaise]_vars

(***************************************************************************)
(* get_ulid_generator (module level) and generate_ulid                     *)
(***************************************************************************)
InitEvent(via, g) ==
    [op |-> "init", gen |-> g, via |-> via, now_ms |-> TsZero, path |-> "none",
     pre_ts |-> TsZero, pre_random |-> ZeroRandom,
     ts |-> TsZero, random |-> ZeroRandom, ulid |-> << >>]

(* generate_ulid(date), line 336, enters get_ulid_generator: line 319, the *)
(* unlocked test.                                                          *)
CallGenerateUlid(t) ==
    /\ th[t].pc = "idle"
    /\ calls < SharedCalls
    /\ calls' = calls + 1
    /\ th' = [th EXCEPT ![t].via = "module",
                        ![t].pc = IF generator_instance = 0 THEN "gug_lock" ELSE "gug_return"]
    /\ UNCHANGED <<gens, singletons, log, codec, others>>

(* line 320: with _generator_lock *)
GugAcquire(t) ==
    /\ th[t].pc = "gug_lock"
    /\ generator_lock = 0
    /\ generator_lock' = t
    /\ th' = [th EXCEPT ![t].pc = "gug_check2"]
    /\ UNCHANGED <<gens, generator_instance, shared, shared_lock, calls, log, codec, others>>

(* Variant of lines 321-322 without the second test under the lock.        *)
GugCheck2_NoRecheck(t) ==
    /\ th[t].pc = "gug_check2"
    /\ gens' = Append(gens, NewGenerator)
    /\ generator_instance' = Len(gens) + 1
    /\ log' = Append(log, InitEvent("module", Len(gens) + 1))
    /\ th' = [th EXCEPT ![t].pc = "gug_unlock"]
    /\ UNCHANGED <<generator_lock, shared, shared_lock, calls, codec, others>>

(* lines 321-322: the test under the lock and the construction *)
GugCheck2(t) ==
    /\ th[t].pc = "gug_check2"
    /\ IF generator_instance = 0
       THEN /\ gens' = Append(gens, NewGenerator)
            /\ generator_instance' = Len(gens) + 1
            /\ log' = Append(log, InitEvent("module", Len(gens) + 1))
       ELSE UNCHANGED <<gens, generator_instance, log>>
    /\ th' = [th EXCEPT ![t].pc = "gug_unlock"]
    /\ UNCHANGED <<generator_lock, shared, shared_lock, calls, codec, others>>

(* Variant of the end of the with block in get_ulid_generator that keeps   *)
(* the lock.                                                               *)
GugRelease_KeepLock(t) ==
    /\ th[t].pc = "gug_unlock"
    /\ th' = [th EXCEPT ![t].pc = "gug_return"]
    /\ UNCHANGED <<gens, singletons, calls, log, codec, others>>

(* end of the with block *)
GugRelease(t) ==
    /\ th[t].pc = "gug_unlock"
    /\ generator_lock' = 0
    /\ th' = [th EXCEPT ![t].pc = "gug_return"]
    /\ UNCHANGED <<gens, generator_instance, shared, shared_lock, calls, log, codec, others>>

(* line 323: return _generator_instance; generate_ulid (line 336) then     *)
(* calls next(date) on the object returned.                                *)
GugReturn(t) ==
    /\ th[t].pc = "gug_return"
    /\ th' = [th EXCEPT ![t].self = generator_instance, ![t].pc = "next_begin"]
    /\ UNCHANGED <<gens, singletons, calls, log, codec, others>>

(***************************************************************************)
(* ULIDGenerator.get_shared                                                *)
(***************************************************************************)
(* ULIDGenerator.get_shared().next(date) enters get_shared: line 235, the  *)
(* unlocked test.                                                          *)
CallGetSharedNext(t) ==
    /\ th[t].pc = "idle"
    /\ calls < SharedCalls
    /\ calls' = calls + 1
    /\ th' = [th EXCEPT ![t].via = "class",
                        ![t].pc = IF shared = 0 THEN "gs_lock" ELSE "gs_return"]
    /\ UNCHANGED <<gens, singletons, log, codec, others>>

(* line 236: with cls._shared_lock *)
GsAcquire(t) ==
    /\ th[t].pc = "gs_lock"
    /\ shared_lock = 0
    /\ shared_lock' = t
    /\ th' = [th EXCEPT ![t].pc = "gs_check2"]
    /\ UNCHANGED <<gens, generator_instance, generator_lock, shared, calls, log, codec, others>>

(* lines 237-238 *)
GsCheck2(t) ==
    /\ th[t].pc = "gs_check2"
    /\ IF shared = 0
       THEN /\ gens' = Append(gens, NewGenerator)
            /\ shared' = Len(gens) + 1
            /\ log' = Append(log, InitEvent("class", Len(gens) + 1))
       ELSE UNCHANGED <<gens, shared, log>>
    /\ th' = [th EXCEPT ![t].pc = "gs_unlock"]
    /\ UNCHANGED <<generator_instance, generator_lock, shared_lock, calls, codec, others>>

(* end of the with block *)
GsRelease(t) ==
    /\ th[t].pc = "gs_unlock"
    /\ shared_lock' = 0
    /\ th' = [th EXCEPT ![t].pc = "gs_return"]
    /\ UNCHANGED <<gens, generator_instance, generator_lock, shared, calls, log, codec, others>>

(* line 239: return cls._shared; the caller then calls next(date) on it.   *)
GsReturn(t) ==
    /\ th[t].pc = "gs_return"
    /\ th' = [th EXCEPT ![t].self = shared, ![t].pc = "next_begin"]
    /\ UNCHANGED <<gens, singletons, calls, log, codec, others>>

(***************************************************************************)
(* The process-wide generators: every call is generate_ulid(date) or       *)
(* ULIDGenerator.get_shared().next(date); no generator exists at start.    *)
(***************************************************************************)
InitShared ==
    /\ gens = << >>
    /\ generator_instance = 0
    /\ generator_lock = 0
    /\ shared = 0
    /\ shared_lock = 0
    /\ th = [t \in Threads |-> IdleThread]
    /\ calls = 0
    /\ log = << >>
    /\ codec = CodecIdle
    /\ OthersIdle

NextShared ==
    \E t \in Threads :
        \/ CallGenerateUlid(t)
        \/ CallGetSharedNext(t)
        \/ GugAcquire(t)
        \/ GugCheck2(t)
        \/ GugRelease(t)
        \/ GugReturn(t)
        \/ GsAcquire(t)
        \/ GsCheck2(t)
        \/ GsRelease(t)
        \/ GsReturn(t)
        \/ NextBegin(t)
        \/ NextAcquire(t)
        \/ NextCompare(t)
        \/ NextFresh(t)
        \/ NextIncrement(t)
        \/ NextReseed(t)
        \/ NextReturn(t)

SpecShared == InitShared /\ [][NextShared]_vars

(***************************************************************************)
(* A direct caller of the codec: ULID.encode(timestamp_ms, random_bytes),  *)
(* then ULID.decode on the string returned.                                *)
(***************************************************************************)
TsInputs ==
    {TsZero, <<Limb - 1, Limb - 1>>, <<0, 1000000>>}
        \cup {<<2^k, 0>> : k \in 0..23} \cup {<<0, 2^k>> : k \in 0..23}

RandInputs ==
    {ZeroRandom, AllFF, OneRandom, CarryRandom}
        \cup {[i \in 1..10 |-> IF i = j THEN 2^k ELSE 0] : j \in 1..10, k \in 0..7}

CodecEncode ==
    /\ codec.pc = "call"
    /\ LET result == encode(codec.timestamp_ms, codec.random_bytes)
       IN  codec' = [codec EXCEPT !.text = result,
                                  !.pc = IF result = ValueError THEN "raised" ELSE "encoded"]
    /\ UNCHANGED <<gens, singletons, th, calls, log, others>>

CodecDecode ==
    /\ codec.pc = "encoded"
    /\ codec' = [codec EXCEPT !.decoded = decode(codec.text), !.pc = "decoded"]
    /\ UNCHANGED <<gens, singletons, th, calls, log, others>>

InitCodec ==
    /\ gens = << >>
    /\ generator_instance = 0
    /\ generator_lock = 0
    /\ shared = 0
    /\ shared_lock = 0
    /\ th = [t \in Threads |-> IdleThread]
    /\ calls = 0
    /\ log = << >>
    /\ codec \in {[CodecIdle EXCEPT !.pc = "call", !.timestamp_ms = ts, !.random_bytes = r] :
                     ts \in TsInputs, r \in RandInputs}
    /\ OthersIdle

NextCodec == CodecEncode \/ CodecDecode

SpecCodec == InitCodec /\ [][NextCodec]_vars

(***************************************************************************)
(* Comparison of strings as Python compares them: character by character   *)
(* by code point, a proper prefix being the smaller.                       *)
(***************************************************************************)
DigitChars == << "0", "1", "2", "3", "4", "5", "6", "7", "8", "9" >>

UpperChars ==
    << "A", "B", "C", "D", "E", "F", "G", "H", "I", "J", "K", "L", "M",
       "N", "O", "P", "Q", "R", "S", "T", "U", "V", "W", "X", "Y", "Z" >>

(* ord(c) for the ASCII digits and letters *)
Ord(c) ==
    IF \E i \in 1..10 : DigitChars[i] = c
    THEN 47 + (CHOOSE i \in 1..10 : DigitChars[i] = c)
    ELSE IF \E i \in 1..26 : UpperChars[i] = c
    THEN 64 + (CHOOSE i \in 1..26 : UpperChars[i] = c)
    ELSE 96 + (CHOOSE i \in 1..26 : Lower(UpperChars[i]) = c)

RECURSIVE StrLess(_, _)
StrLess(s1, s2) ==
    IF s2 = <<>> THEN FALSE
    ELSE IF s1 = <<>> THEN TRUE
    ELSE IF Head(s1) # Head(s2) THEN Ord(Head(s1)) < Ord(Head(s2))
    ELSE StrLess(Tail(s1), Tail(s2))

(***************************************************************************)
(* A caller that encodes two (timestamp_ms, random_bytes) pairs, as the    *)
(* generator does at line 264 on successive calls, and compares the two    *)
(* strings.                                                                *)
(***************************************************************************)
OrderTs ==
    { TsZero, <<0, 1>>, <<0, 9>>, <<0, 10>>, <<0, 31>>, <<0, 32>>, <<0, Limb - 1>>,
      <<1, 0>>, <<Limb - 1, Limb - 1>> }

OrderRandom ==
    { ZeroRandom, OneRandom, CarryRandom, AllFF,
      [i \in 1..10 |-> IF i = 1 THEN 128 ELSE 0] }

OrderInputs ==
    { [timestamp_ms |-> ts, random_bytes |-> r] : ts \in OrderTs, r \in OrderRandom }

PairEncodeA ==
    /\ pair.pc = "encode_a"
    /\ pair' = [pair EXCEPT !.result_a = encode(pair.a.timestamp_ms, pair.a.random_bytes),
                            !.pc = "encode_b"]
    /\ UNCHANGED <<ulid_state, meta, retry, threader>>

PairEncodeB ==
    /\ pair.pc = "encode_b"
    /\ pair' = [pair EXCEPT !.result_b = encode(pair.b.timestamp_ms, pair.b.random_bytes),
                            !.pc = "encoded"]
    /\ UNCHANGED <<ulid_state, meta, retry, threader>>

InitOrder ==
    /\ gens = << >>
    /\ generator_instance = 0
    /\ generator_lock = 0
    /\ shared = 0
    /\ shared_lock = 0
    /\ th = [t \in Threads |-> IdleThread]
    /\ calls = 0
    /\ log = << >>
    /\ codec = CodecIdle
    /\ pair \in {[PairIdle EXCEPT !.pc = "encode_a", !.a = x, !.b = y] :
                    x \in OrderInputs, y \in OrderInputs}
    /\ meta = MetaIdle
    /\ retry = Decorated(4, 3, 2)
    /\ threader = NewThreader(0)

NextOrder == PairEncodeA \/ PairEncodeB

SpecOrder == InitOrder /\ [][NextOrder]_vars

(***************************************************************************)
(* A caller that decodes an identifier in canonical form and a respelling  *)
(* of it (lowercase letters, i I l L for 1, o O for 0) and compares the    *)
(* two results.                                                            *)
(***************************************************************************)
(* "01ARZ3NDEKTSV4RRFFQ69G5FAV", the example of the module docstring *)
DocExample ==
    << "0", "1", "A", "R", "Z", "3", "N", "D", "E", "K", "T", "S", "V",
       "4", "R", "R", "F", "F", "Q", "6", "9", "G", "5", "F", "A", "V" >>

(* "7ZZZZZZZZZZZZZZZZZZZZZZZZZ" *)
SeedMax == <<"7">> \o [k \in 1..25 |-> "Z"]

CanonicalInputs == { SeedZero, SeedOne, SeedFF, DocExample, SeedMax }

(* s.lower() *)
LowerStr(s) == [k \in 1..Len(s) |-> Lower(s[k])]

(* s with the character at position k replaced by c *)
ReplaceAt(s, k, c) == [s EXCEPT ![k] = c]

(* s with every "1" replaced by one and every "0" by zero *)
ReplaceAll(s, one, zero) ==
    [k \in 1..Len(s) |-> IF s[k] = "1" THEN one ELSE IF s[k] = "0" THEN zero ELSE s[k]]

Respellings(s) ==
    { LowerStr(s) }
        \cup { ReplaceAt(s, k, c) : k \in {j \in 1..Len(s) : s[j] = "1"},
                                     c \in {"i", "I", "l", "L"} }
        \cup { ReplaceAt(s, k, c) : k \in {j \in 1..Len(s) : s[j] = "0"}, c \in {"o", "O"} }
        \cup { ReplaceAll(s, one, zero) : one \in {"1", "i", "I", "l", "L"},
                                          zero \in {"0", "o", "O"} }
        \cup { LowerStr(ReplaceAll(s, one, zero)) : one \in {"I", "L"}, zero \in {"O"} }

PairDecodeA ==
    /\ pair.pc = "decode_a"
    /\ pair' = [pair EXCEPT !.result_a = decode(pair.a), !.pc = "decode_b"]
    /\ UNCHANGED <<ulid_state, meta, retry, threader>>

PairDecodeB ==
    /\ pair.pc = "decode_b"
    /\ pair' = [pair EXCEPT !.result_b = decode(pair.b), !.pc = "decoded"]
    /\ UNCHANGED <<ulid_state, meta, retry, threader>>

InitLenient ==
    /\ gens = << >>
    /\ generator_instance = 0
    /\ generator_lock = 0
    /\ shared = 0
    /\ shared_lock = 0
    /\ th = [t \in Threads |-> IdleThread]
    /\ calls = 0
    /\ log = << >>
    /\ codec = CodecIdle
    /\ \E s \in CanonicalInputs :
          pair \in {[PairIdle EXCEPT !.pc = "decode_a", !.a = s, !.b = v] : v \in Respellings(s)}
    /\ meta = MetaIdle
    /\ retry = Decorated(4, 3, 2)
    /\ threader = NewThreader(0)

NextLenient == PairDecodeA \/ PairDecodeB

SpecLenient == InitLenient /\ [][NextLenient]_vars

(***************************************************************************)
(* A caller of ULID.decode alone, on strings of any length and content.    *)
(***************************************************************************)
(* the characters of the decode table: the alphabet in both cases and the  *)
(* aliases                                                                 *)
AcceptedChars ==
    {ALPHABET[i] : i \in 1..32} \cup {Lower(ALPHABET[i]) : i \in 1..32}
        \cup {"i", "I", "l", "L", "o", "O"}

BadChars == {"U", "u", "-", " ", "!"}

WrongLengthInputs ==
    { << >>, <<"0">>, SubSeq(DocExample, 1, 25), DocExample \o <<"0">>,
      DocExample \o DocExample, SubSeq(ReplaceAt(DocExample, 3, "U"), 1, 25) }

BadCharInputs ==
    { ReplaceAt(s, k, c) : s \in {SeedOne, DocExample}, k \in 1..26, c \in BadChars }

FirstCharInputs ==
    { <<c>> \o Tail(s) : c \in AcceptedChars,
                         s \in {SeedZero, SeedOne, SeedMax, LowerStr(DocExample)} }

DecodeInputs == WrongLengthInputs \cup BadCharInputs \cup FirstCharInputs

InitDecode ==
    /\ gens = << >>
    /\ generator_instance = 0
    /\ generator_lock = 0
    /\ shared = 0
    /\ shared_lock = 0
    /\ th = [t \in Threads |-> IdleThread]
    /\ calls = 0
    /\ log = << >>
    /\ codec \in {[CodecIdle EXCEPT !.pc = "encoded", !.text = s] : s \in DecodeInputs}
    /\ OthersIdle

NextDecode == CodecDecode

SpecDecode == InitDecode /\ [][NextDecode]_vars

(***************************************************************************)
(* A caller of ULID.encode with random_bytes of any length.                *)
(***************************************************************************)
RandomLengths == {0, 9, 10, 11, 16}

AnyLengthRandom ==
    { [i \in 1..n |-> b] : n \in RandomLengths, b \in {0, 255} }

InitEncodeArgs ==
    /\ gens = << >>
    /\ generator_instance = 0
    /\ generator_lock = 0
    /\ shared = 0
    /\ shared_lock = 0
    /\ th = [t \in Threads |-> IdleThread]
    /\ calls = 0
    /\ log = << >>
    /\ codec \in {[CodecIdle EXCEPT !.pc = "call", !.timestamp_ms = ts, !.random_bytes = r] :
                     ts \in TsInputs, r \in AnyLengthRandom}
    /\ OthersIdle

NextEncodeArgs == CodecEncode \/ CodecDecode

SpecEncodeArgs == InitEncodeArgs /\ [][NextEncodeArgs]_vars

(***************************************************************************)
(* dsutil.tools.singleton: Singleton.__call__ for one class whose          *)
(* metaclass is Singleton, called from several threads.  A Lock object is  *)
(* its index in meta.lock_objs, holding 0 or the thread that owns it; an   *)
(* instance is the number of the constructor run that made it.             *)
(***************************************************************************)
(* the call, and line 42: if cls not in cls.__locks *)
MetaCall(t) ==
    /\ meta.th[t].pc = "idle"
    /\ meta.calls < MaxCalls
    /\ meta' = [meta EXCEPT !.calls = @ + 1,
                            !.th[t].pc = IF meta.locks = 0 THEN "new_lock" ELSE "get_lock"]
    /\ UNCHANGED <<ulid_state, pair, retry, threader>>

(* line 43: cls.__locks[cls] = Lock() *)
MetaNewLock(t) ==
    /\ meta.th[t].pc = "new_lock"
    /\ meta' = [meta EXCEPT !.lock_objs = Append(@, 0),
                            !.locks = Len(meta.lock_objs) + 1,
                            !.th[t].pc = "get_lock"]
    /\ UNCHANGED <<ulid_state, pair, retry, threader>>

(* line 45: the operand cls.__locks[cls] of the with statement *)
MetaGetLock(t) ==
    /\ meta.th[t].pc = "get_lock"
    /\ meta' = [meta EXCEPT !.th[t].lock = meta.locks, !.th[t].pc = "acquire"]
    /\ UNCHANGED <<ulid_state, pair, retry, threader>>

(* line 45: entering the with block acquires that Lock *)
MetaAcquire(t) ==
    /\ meta.th[t].pc = "acquire"
    /\ meta.lock_objs[meta.th[t].lock] = 0
    /\ meta' = [meta EXCEPT !.lock_objs[meta.th[t].lock] = t, !.th[t].pc = "check"]
    /\ UNCHANGED <<ulid_state, pair, retry, threader>>

(* line 46: if cls not in cls.__instances *)
MetaCheck(t) ==
    /\ meta.th[t].pc = "check"
    /\ meta' = [meta EXCEPT !.th[t].pc = IF meta.instances = 0 THEN "construct" ELSE "release"]
    /\ UNCHANGED <<ulid_state, pair, retry, threader>>

(* line 47: instance = super().__call__ with the arguments, which runs __init__ *)
MetaConstruct(t) ==
    /\ meta.th[t].pc = "construct"
    /\ meta' = [meta EXCEPT !.created = @ + 1,
                            !.th[t].instance = meta.created + 1,
                            !.th[t].pc = "store"]
    /\ UNCHANGED <<ulid_state, pair, retry, threader>>

(* line 48: cls.__instances[cls] = instance *)
MetaStore(t) ==
    /\ meta.th[t].pc = "store"
    /\ meta' = [meta EXCEPT !.instances = meta.th[t].instance, !.th[t].pc = "release"]
    /\ UNCHANGED <<ulid_state, pair, retry, threader>>

(* leaving the with block of line 45 *)
MetaRelease(t) ==
    /\ meta.th[t].pc = "release"
    /\ meta' = [meta EXCEPT !.lock_objs[meta.th[t].lock] = 0, !.th[t].pc = "return"]
    /\ UNCHANGED <<ulid_state, pair, retry, threader>>

(* line 49: return cls.__instances[cls] *)
MetaReturn(t) ==
    /\ meta.th[t].pc = "return"
    /\ meta' = [meta EXCEPT !.returned = Append(@, meta.instances),
                            !.th[t] = [pc |-> "idle", lock |-> 0, instance |-> 0]]
    /\ UNCHANGED <<ulid_state, pair, retry, threader>>

InitMeta ==
    /\ gens = << >>
    /\ generator_instance = 0
    /\ generator_lock = 0
    /\ shared = 0
    /\ shared_lock = 0
    /\ th = [t \in Threads |-> IdleThread]
    /\ calls = 0
    /\ log = << >>
    /\ codec = CodecIdle
    /\ OthersIdle

NextMeta ==
    \E t \in Threads :
        \/ MetaCall(t)
        \/ MetaNewLock(t)
        \/ MetaGetLock(t)
        \/ MetaAcquire(t)
        \/ MetaCheck(t)
        \/ MetaConstruct(t)
        \/ MetaStore(t)
        \/ MetaRelease(t)
        \/ MetaReturn(t)

SpecMeta == InitMeta /\ [][NextMeta]_vars

(***************************************************************************)
(* sys.retry_on_exc (async_utils.retry_on_exc has the same body): the      *)
(* wrapper of one decorated function, invoked several times in sequence.   *)
(* Each call of the function either returns or raises the exception that   *)
(* is retried.                                                             *)
(***************************************************************************)
(* One invocation over: its calls of the function, its sleeps, how it ended. *)
RetryEnd(outcome) ==
    [retry EXCEPT !.pc = "idle",
                  !.done = Append(@, [attempts |-> retry.attempts + 1,
                                      waits |-> retry.waits, outcome |-> outcome])]

(* wrapper(...) is called *)
RetryInvoke ==
    /\ retry.pc = "idle"
    /\ Len(retry.done) < MaxCalls
    /\ retry' = [retry EXCEPT !.pc = "while", !.attempts = 0, !.waits = << >>]
    /\ UNCHANGED <<ulid_state, pair, meta, threader>>

(* line 44: while tries > 1 *)
RetryWhile ==
    /\ retry.pc = "while"
    /\ retry' = [retry EXCEPT !.pc = IF retry.tries > 1 THEN "try" ELSE "last"]
    /\ UNCHANGED <<ulid_state, pair, meta, threader>>

(* lines 45-47: return func(...), or the exception is caught *)
RetryTry ==
    /\ retry.pc = "try"
    /\ \/ retry' = RetryEnd("returned")
       \/ retry' = [retry EXCEPT !.pc = "except", !.attempts = @ + 1]
    /\ UNCHANGED <<ulid_state, pair, meta, threader>>

(* lines 48-54: time.sleep(delay); tries -= 1; delay *= backoff *)
RetryExcept ==
    /\ retry.pc = "except"
    /\ retry' = [retry EXCEPT !.waits = Append(@, retry.delay),
                              !.tries = @ - 1,
                              !.delay = @ * retry.backoff,
                              !.pc = "while"]
    /\ UNCHANGED <<ulid_state, pair, meta, threader>>

(* line 55: return func(...), outside the try: an exception propagates *)
RetryLast ==
    /\ retry.pc = "last"
    /\ \E outcome \in {"returned", "raised"} : retry' = RetryEnd(outcome)
    /\ UNCHANGED <<ulid_state, pair, meta, threader>>

InitRetry ==
    /\ gens = << >>
    /\ generator_instance = 0
    /\ generator_lock = 0
    /\ shared = 0
    /\ shared_lock = 0
    /\ th = [t \in Threads |-> IdleThread]
    /\ calls = 0
    /\ log = << >>
    /\ codec = CodecIdle
    /\ pair = PairIdle
    /\ meta = MetaIdle
    /\ retry \in {Decorated(n, d, b) : n \in {1, 2, 3, 4}, d \in {1, 3}, b \in {1, 2}}
    /\ threader = NewThreader(0)

NextRetry == RetryInvoke \/ RetryWhile \/ RetryTry \/ RetryExcept \/ RetryLast

SpecRetry == InitRetry /\ [][NextRetry]_vars

(***************************************************************************)
(* dsutil.tools.thread: LocalThreader.  One thread starts a task for each  *)
(* key with start_with_executor (with or without timeout) and then calls   *)
(* wait_for_all_threads(timeout); the executor's workers run the tasks.    *)
(* No simple thread is started, so the loop of lines 250-255 is empty.     *)
(* A future is "pending", "running", "finished" or "cancelled".            *)
(***************************************************************************)
(* start_with_executor, lines 96-114 (the keys differ, so line 100 is not  *)
(* reached), and lines 116, 123 when timeout is None                       *)
TStart ==
    /\ threader.pc = "start"
    /\ \E timeout \in BOOLEAN :
          threader' = [threader EXCEPT
              !.event[threader.k] = "clear",
              !.fut[threader.k] = "pending",
              !.active_threads = @ \cup {threader.k},
              !.pc = IF timeout THEN "result"
                     ELSE IF threader.k < NTasks THEN "start" ELSE "wait_futures",
              !.k = IF timeout THEN @ ELSE IF threader.k < NTasks THEN @ + 1 ELSE 1]
    /\ UNCHANGED <<ulid_state, pair, meta, retry>>

(* line 118: future.result(timeout=timeout) returns, then line 123 *)
TResultReturn ==
    /\ threader.pc = "result"
    /\ threader.fut[threader.k] = "finished"
    /\ threader' = [threader EXCEPT
          !.pc = IF threader.k < NTasks THEN "start" ELSE "wait_futures",
          !.k = IF threader.k < NTasks THEN @ + 1 ELSE 1]
    /\ UNCHANGED <<ulid_state, pair, meta, retry>>

(* lines 119-123: the timeout elapses first; future.cancel() cancels a     *)
(* future that has not begun to run                                        *)
TResultTimeout ==
    /\ threader.pc = "result"
    /\ threader.fut[threader.k] \in {"pending", "running"}
    /\ threader' = [threader EXCEPT
          !.fut[threader.k] = IF @ = "pending" THEN "cancelled" ELSE @,
          !.pc = IF threader.k < NTasks THEN "start" ELSE "wait_futures",
          !.k = IF threader.k < NTasks THEN @ + 1 ELSE 1]
    /\ UNCHANGED <<ulid_state, pair, meta, retry>>

(* a free worker of the executor takes the task: _start_thread_wrapper begins *)
WorkerRun(k) ==
    /\ threader.fut[k] = "pending"
    /\ threader.busy + Cardinality({j \in Keys : threader.fut[j] = "running"}) < max_workers
    /\ threader' = [threader EXCEPT !.fut[k] = "running"]
    /\ UNCHANGED <<ulid_state, pair, meta, retry>>

(* lines 135-144: the target ends (normally or not); finally: event.set() *)
WorkerFinish(k) ==
    /\ threader.fut[k] = "running"
    /\ threader' = [threader EXCEPT !.fut[k] = "finished", !.event[k] = "set"]
    /\ UNCHANGED <<ulid_state, pair, meta, retry>>

(* a task started without key ends and frees its worker *)
UntrackedFinish ==
    /\ threader.busy > 0
    /\ threader' = [threader EXCEPT !.busy = @ - 1]
    /\ UNCHANGED <<ulid_state, pair, meta, retry>>

(* wait_for_all_threads, lines 241-247: future.result(timeout=timeout)    *)
(* returns for a finished future, raises CancelledError for a cancelled    *)
(* one, TimeoutError when the timeout elapses; each is caught              *)
TWaitFuture ==
    /\ threader.pc = "wait_futures"
    /\ threader' = [threader EXCEPT
          !.timed_out = IF threader.fut[threader.k] \in {"pending", "running"}
                        THEN @ \cup {threader.k} ELSE @,
          !.pc = IF threader.k < NTasks THEN "wait_futures" ELSE "wait_events",
          !.k = IF threader.k < NTasks THEN @ + 1 ELSE 1]
    /\ UNCHANGED <<ulid_state, pair, meta, retry>>

(* lines 258-259: event.wait(), without timeout *)
TWaitEvent ==
    /\ threader.pc = "wait_events"
    /\ threader.event[threader.k] = "set"
    /\ threader' = [threader EXCEPT
          !.pc = IF threader.k < NTasks THEN "wait_events" ELSE "cleanup",
          !.k = IF threader.k < NTasks THEN @ + 1 ELSE 1]
    /\ UNCHANGED <<ulid_state, pair, meta, retry>>

(* line 261 with cleanup(), lines 214-222; wait_for_all_threads returns *)
TCleanup ==
    /\ threader.pc = "cleanup"
    /\ LET over == {k \in threader.active_threads :
                       threader.fut[k] \in {"finished", "cancelled"}}
       IN  threader' = [threader EXCEPT
              !.active_threads = @ \ over,
              !.event = [k \in Keys |-> IF k \in over THEN "set" ELSE threader.event[k]],
              !.pc = "done"]
    /\ UNCHANGED <<ulid_state, pair, meta, retry>>

InitThreader ==
    /\ gens = << >>
    /\ generator_instance = 0
    /\ generator_lock = 0
    /\ shared = 0
    /\ shared_lock = 0
    /\ th = [t \in Threads |-> IdleThread]
    /\ calls = 0
    /\ log = << >>
    /\ codec = CodecIdle
    /\ pair = PairIdle
    /\ meta = MetaIdle
    /\ retry = Decorated(4, 3, 2)
    /\ threader \in {NewThreader(busy) : busy \in {0, max_workers - 1, max_workers}}

CallerStep ==
    TStart \/ TResultReturn \/ TResultTimeout \/ TWaitFuture \/ TWaitEvent \/ TCleanup

NextThreader ==
    \/ CallerStep
    \/ \E k \in Keys : WorkerRun(k)
    \/ \E k \in Keys : WorkerFinish(k)
    \/ UntrackedFinish

(* The calling thread keeps running and a free worker takes a pending     *)
(* task; nothing makes a target function end.                              *)
SpecThreader ==
    /\ InitThreader
    /\ [][NextThreader]_vars
    /\ WF_vars(CallerStep)
    /\ WF_vars(\E k \in Keys : WorkerRun(k))

(***************************************************************************)
(* Callers of one generator at the ends of the ranges: dates before the    *)
(* epoch and at datetime.max (9999-12-31T23:59:59.999999 UTC, whose        *)
(* timestamp() rounds to 253402300800.0 s), and the seed with the largest  *)
(* timestamp and randomness an identifier can carry.                       *)
(***************************************************************************)
MaxDate == <<15103954, 2087936>>

RangeDates == { <<-1, Limb - 5>>, MaxDate }

RangeSeeds == { SeedMax }

DecodedRange == [s \in RangeSeeds |-> decode(s)]

NextBeginRange(t) == NextBeginFrom(t, RangeDates)

SeedBeginRange(t) == SeedBeginFrom(t, RangeSeeds, DecodedRange)

NextRange ==
    \E t \in Threads :
        \/ CallNext(t)
        \/ CallSeed(t)
        \/ NextBeginRange(t)
        \/ NextAcquire(t)
        \/ NextCompare(t)
        \/ NextFresh(t)
        \/ NextIncrement(t)
        \/ NextReseed(t)
        \/ NextReturn(t)
        \/ SeedBeginRange(t)
        \/ SeedAcquire(t)
        \/ SeedCompare(t)
        \/ SeedRandom(t)
        \/ SeedExit(t)

SpecRange == Init /\ [][NextRange]_vars

(***************************************************************************)
(* The entry points together under fair scheduling: threads call           *)
(* g.next(date) and g.seed(x) on a generator g of their own making, and    *)
(* generate_ulid(date), which is get_ulid_generator().next(date).  A       *)
(* thread that has begun a call keeps being scheduled; whether a thread    *)
(* makes another call is up to it.                                         *)
(***************************************************************************)
FairDates == { <<0, 1000000>> }

FairSeeds == { SeedOne, SeedShort }

NextBeginFair(t) == NextBeginFrom(t, FairDates)

SeedBeginFair(t) == SeedBeginFrom(t, FairSeeds, DecodedInputs)

(* A thread begins one of the three kinds of call. *)
CallFair(t) ==
    /\ th[t].pc = "idle"
    /\ calls < FairCalls
    /\ calls' = calls + 1
    /\ \E pc \in {"next_begin", "seed_begin", "gug"} :
          th' = [th EXCEPT
                    ![t].via = IF pc = "gug" THEN "module" ELSE "direct",
                    ![t].self = IF pc = "gug" THEN 0 ELSE 1,
                    ![t].pc = IF pc # "gug" THEN pc
                              ELSE IF generator_instance = 0 THEN "gug_lock"
                              ELSE "gug_return"]
    /\ UNCHANGED <<gens, singletons, log, codec, others>>

(* The steps of thread t inside a call, but for the return from next(). *)
Running(t) ==
    \/ GugAcquire(t)
    \/ GugCheck2(t)
    \/ GugRelease(t)
    \/ GugReturn(t)
    \/ NextBeginFair(t)
    \/ NextAcquire(t)
    \/ NextCompare(t)
    \/ NextFresh(t)
    \/ NextIncrement(t)
    \/ NextReseed(t)
    \/ NextUrandomRaises(t)
    \/ SeedBeginFair(t)
    \/ SeedAcquire(t)
    \/ SeedCompare(t)
    \/ SeedRandom(t)
    \/ SeedExit(t)

(* The return from next(): the step NextReturn(t), named by what it does   *)
(* to the thread.                                                          *)
Returning(t) ==
    /\ th[t].pc = "next_encode"
    /\ th' = [th EXCEPT ![t] = IdleThread]

NextFair ==
    \E t \in Threads :
        \/ CallFair(t)
        \/ GugAcquire(t)
        \/ GugCheck2(t)
        \/ GugRelease(t)
        \/ GugReturn(t)
                        \/ NextBeginFair(t)
        \/ NextAcquire(t)
        \/ NextCompare(t)
        \/ NextFresh(t)
        \/ NextIncrement(t)
        \/ NextReseed(t)
        \/ NextUrandomRaises(t)
        \/ NextReturn(t)
        \/ SeedBeginFair(t)
        \/ SeedAcquire(t)
        \/ SeedCompare(t)
        \/ SeedRandom(t)
        \/ SeedExit(t)

SpecFair ==
    /\ Init
    /\ [][NextFair]_vars
    /\ \A t \in Threads : WF_vars(Running(t)) /\ WF_th(Returning(t))

(***************************************************************************)
(* A caller of ULID.encode with timestamps outside 0 .. 2^48-1: negative   *)
(* ones and ones of 49 bits and more, as pairs <<hi, lo>> whose hi lies    *)
(* outside 0 .. 2^24-1.                                                    *)
(***************************************************************************)
WideTs ==
    { <<-1, Limb - 1>>, <<-1, 0>>, <<-2, 1000000>>, <<-Limb, 0>>, <<-Limb - 1, 5>>,
      <<-(2^30), 123>>, <<Limb, 0>>, <<Limb, 1000000>>, <<Limb + 1, 0>>,
      <<2 * Limb - 1, Limb - 1>>, <<3 * Limb + 4660, 65535>>, <<2^30, 77>>,
      <<2^30 + (2^30 - 1), Limb - 1>> }

WideRandom == { ZeroRandom, AllFF, OneRandom, CarryRandom }

InitWide ==
    /\ gens = << >>
    /\ generator_instance = 0
    /\ generator_lock = 0
    /\ shared = 0
    /\ shared_lock = 0
    /\ th = [t \in Threads |-> IdleThread]
    /\ calls = 0
    /\ log = << >>
    /\ codec \in {[CodecIdle EXCEPT !.pc = "call", !.timestamp_ms = ts, !.random_bytes = r] :
                     ts \in WideTs, r \in WideRandom}
    /\ OthersIdle

NextWide == CodecEncode \/ CodecDecode

SpecWide == InitWide /\ [][NextWide]_vars

(***************************************************************************)
(* History helpers.  An identifier is compared through the (timestamp,     *)
(* randomness) pair it encodes, as a 128-bit big-endian unsigned integer.  *)
(***************************************************************************)
PairLess(ts1, r1, ts2, r2) == TsLess(ts1, ts2) \/ (ts1 = ts2 /\ BytesLess(r1, r2))

IdLess(e1, e2) == PairLess(e1.ts, e1.random, e2.ts, e2.random)

IsNextOf(e, g) == e.op = "next" /\ e.gen = g

IsSeedOf(e, g) == e.op = "seed" /\ e.gen = g

GenLog(g) == SelectSeq(log, LAMBDA e : e.op \in {"next", "seed"} /\ e.gen = g)

NextLog(g) == SelectSeq(log, LAMBDA e : IsNextOf(e, g))

OnlyNextCalls == \A i \in DOMAIN log : log[i].op = "next"

Gens == DOMAIN gens

(* C1: in any sequence of next() calls on one generator, with any time     *)
(* inputs, every identifier returned is strictly greater than the one      *)
(* returned by the preceding call.                                         *)
C1_EachNextStrictlyGreater ==
    OnlyNextCalls =>
        \A g \in Gens :
            LET nl == NextLog(g)
            IN  \A i \in 2..Len(nl) : IdLess(nl[i - 1], nl[i])

(* C2: the identifiers returned to several threads calling next() on one   *)
(* generator, taken in the order in which the calls held the lock, are     *)
(* non-decreasing and contain no duplicates.                               *)
C2_ConcurrentNonDecreasingNoDuplicates ==
    OnlyNextCalls =>
        \A g \in Gens :
            LET nl == NextLog(g)
            IN  \A i, j \in 1..Len(nl) :
                    i < j => /\ ~IdLess(nl[j], nl[i])
                             /\ nl[i].ulid # nl[j].ulid

(* C3: a next() call that advances time, or that increments a randomness   *)
(* that is not all 0xFF, returns an identifier strictly greater than every *)
(* identifier the generator returned before.                               *)
C3_NoOverflowGreaterThanAllEarlier ==
    \A g \in Gens :
        LET nl == NextLog(g)
        IN  \A j \in 1..Len(nl) :
                nl[j].path \in {"advance", "increment"} =>
                    \A i \in 1..(j - 1) : IdLess(nl[i], nl[j])

(* C6: seed(x) with x above the generator's state, followed by next() with *)
(* any time, returns an identifier that sorts strictly after x.            *)
C6_NextAfterSeedSortsAfterSeed ==
    \A g \in Gens :
        LET gl == GenLog(g)
        IN  \A i \in 2..Len(gl) :
                ( /\ gl[i - 1].op = "seed"
                  /\ ~DecodedInputs[gl[i - 1].ulid].is_none
                  /\ PairLess(gl[i - 1].pre_ts, gl[i - 1].pre_random,
                              DecodedInputs[gl[i - 1].ulid].timestamp_ms,
                              DecodedInputs[gl[i - 1].ulid].random_bytes)
                  /\ gl[i].op = "next" )
                => PairLess(DecodedInputs[gl[i - 1].ulid].timestamp_ms,
                            DecodedInputs[gl[i - 1].ulid].random_bytes,
                            gl[i].ts, gl[i].random)

(* C7: seed(x) with a valid x that is less than or equal to the            *)
(* generator's state leaves last_timestamp_ms and last_random unchanged.   *)
C7_SeedNotAboveStateIsNoOp ==
    \A i \in DOMAIN log :
        LET e == log[i]
            x == DecodedInputs[e.ulid]
        IN  ( /\ e.op = "seed"
              /\ ~x.is_none
              /\ ~PairLess(e.pre_ts, e.pre_random, x.timestamp_ms, x.random_bytes) )
            => /\ e.ts = e.pre_ts
               /\ e.random = e.pre_random

(* C7 witness: a seed strictly below the state has been processed.         *)
C7_Witness ==
    \E i \in DOMAIN log :
        /\ log[i].op = "seed"
        /\ log[i].path = "keep"
        /\ PairLess(DecodedInputs[log[i].ulid].timestamp_ms,
                    DecodedInputs[log[i].ulid].random_bytes,
                    log[i].pre_ts, log[i].pre_random)
        /\ log[i].pre_random # ZeroRandom

(* C8: seed() of a string that decode rejects returns normally and leaves  *)
(* last_timestamp_ms and last_random unchanged.                            *)
C8_InvalidSeedIsNoOp ==
    \A i \in DOMAIN log :
        LET e == log[i]
        IN  (e.op = "seed" /\ DecodedInputs[e.ulid].is_none)
            => /\ e.path = "invalid"
               /\ e.ts = e.pre_ts
               /\ e.random = e.pre_random

(* C8 witness: a string of the wrong length, one with a character outside  *)
(* the table and one with a non-zero overflow prefix have all been passed  *)
(* to seed(), and decode rejects each of them.                             *)
C8_Witness ==
    /\ \A x \in {SeedShort, SeedBadChar, SeedOverflow} :
          \E i \in DOMAIN log : log[i].op = "seed" /\ log[i].ulid = x
                                /\ log[i].path = "invalid"
    /\ DecodedInputs[SeedShort].is_none
    /\ DecodedInputs[SeedBadChar].is_none
    /\ DecodedInputs[SeedOverflow].is_none

(* C9: next() with a time earlier than the one of the previous call keeps  *)
(* the timestamp from decreasing and returns a strictly greater            *)
(* randomness than the previous identifier's.                              *)
C9_ClockRegressionIncreasesRandomness ==
    \A g \in Gens :
        LET gl == GenLog(g)
        IN  \A i \in 2..Len(gl) :
                ( /\ gl[i - 1].op = "next"
                  /\ gl[i].op = "next"
                  /\ TsLess(gl[i].now_ms, gl[i - 1].now_ms) )
                => /\ ~TsLess(gl[i].ts, gl[i - 1].ts)
                   /\ BytesLess(gl[i - 1].random, gl[i].random)

InitCount(via) ==
    Cardinality({i \in DOMAIN log : log[i].op = "init" /\ log[i].via = via})

Slot(via) == IF via = "module" THEN generator_instance ELSE shared

(* the thread's accessor call has returned and it is inside next() *)
HasInstance(t) ==
    th[t].pc \in {"next_begin", "next_lock", "next_cmp", "next_fresh",
                  "next_incr", "next_reseed", "next_encode"}

(* C4: for each accessor (get_ulid_generator, ULIDGenerator.get_shared),   *)
(* under any interleaving of first calls, the constructor runs exactly     *)
(* once and every call returns that one instance.                          *)
C4_SingletonConstructedOnce ==
    \A via \in {"module", "class"} :
        /\ InitCount(via) <= 1
        /\ Slot(via) # 0 => InitCount(via) = 1
        /\ \A t \in Threads :
              (th[t].via = via /\ HasInstance(t))
              => /\ th[t].self # 0
                 /\ th[t].self = Slot(via)
                 /\ InitCount(via) = 1
        /\ \A i \in DOMAIN log :
              (log[i].op = "next" /\ log[i].via = via) => log[i].gen = Slot(via)

(* C4 witness: a thread that passed the unlocked test while the slot was   *)
(* empty now holds the accessor lock after another thread has constructed  *)
(* the instance, and that other thread has already got the instance.       *)
C4_Witness ==
    \E t1, t2 \in Threads :
        /\ th[t1].pc = "gug_check2"
        /\ generator_instance # 0
        /\ th[t2].via = "module"
        /\ HasInstance(t2)

(* C5: identifiers obtained through generate_ulid() and through            *)
(* ULIDGenerator.get_shared().next() come from the same generator instance *)
(* and form one strictly increasing sequence.                              *)
C5_OneProcessWideSequence ==
    \A i, j \in DOMAIN log :
        (log[i].op = "next" /\ log[i].via = "module" /\
         log[j].op = "next" /\ log[j].via = "class")
        => /\ log[i].gen = log[j].gen
           /\ i < j => IdLess(log[i], log[j])
           /\ j < i => IdLess(log[j], log[i])

(* C10: decode(encode(timestamp_ms, random)) is (timestamp_ms, random) for *)
(* every 48-bit timestamp and every 10-byte random value.                  *)
C10_DecodeInvertsEncode ==
    codec.pc = "decoded" =>
        /\ ~codec.decoded.is_none
        /\ codec.decoded.timestamp_ms = codec.timestamp_ms
        /\ codec.decoded.random_bytes = codec.random_bytes

(* C10 witness: the pair (1000000, 00 00 00 00 00 00 00 00 00 01) has been *)
(* encoded to "000000YGJ00000000000000001" and decoded.                    *)
C10_Witness ==
    /\ codec.pc = "decoded"
    /\ codec.timestamp_ms = <<0, 1000000>>
    /\ codec.random_bytes = OneRandom
    /\ Len(codec.text) = 26
    /\ codec.text[7] = "Y" /\ codec.text[8] = "G" /\ codec.text[9] = "J"
    /\ codec.text[26] = "1"

(* C11: for two (timestamp, randomness) pairs, encode of the first is less *)
(* than encode of the second under character-by-character string          *)
(* comparison if and only if the first pair is less than the second as a   *)
(* 128-bit big-endian unsigned integer.                                    *)
C11_EncodePreservesOrder ==
    pair.pc = "encoded" =>
        ( StrLess(pair.result_a, pair.result_b)
          <=> PairLess(pair.a.timestamp_ms, pair.a.random_bytes,
                       pair.b.timestamp_ms, pair.b.random_bytes) )

(* C11 witness: two pairs have been encoded of which the first has the     *)
(* smaller timestamp and the larger randomness, and their strings differ   *)
(* within the first ten characters.                                        *)
C11_Witness ==
    /\ pair.pc = "encoded"
    /\ TsLess(pair.a.timestamp_ms, pair.b.timestamp_ms)
    /\ BytesLess(pair.b.random_bytes, pair.a.random_bytes)
    /\ StrLess(pair.result_a, pair.result_b)
    /\ SubSeq(pair.result_a, 1, 10) # SubSeq(pair.result_b, 1, 10)

(* C12: for every timestamp in [0, 2^48-1] and every 10-byte randomness,   *)
(* encode returns a string of exactly 26 characters, each one of           *)
(* 0123456789ABCDEFGHJKMNPQRSTVWXYZ (never I, L, O or U); the length check *)
(* after the encoding loop does not raise.                                 *)
C12_EncodeLengthAndAlphabet ==
    codec.pc \in {"encoded", "decoded", "raised"} =>
        /\ codec.pc # "raised"
        /\ codec.text # ValueError
        /\ Len(codec.text) = 26
        /\ \A k \in 1..Len(codec.text) :
              /\ codec.text[k] \in
                    { "0", "1", "2", "3", "4", "5", "6", "7", "8", "9", "A", "B",
                      "C", "D", "E", "F", "G", "H", "J", "K", "M", "N", "P", "Q",
                      "R", "S", "T", "V", "W", "X", "Y", "Z" }
              /\ codec.text[k] \notin {"I", "L", "O", "U"}

(* C12 witness: the largest input, timestamp 2^48-1 with ten 0xFF bytes,   *)
(* has been encoded to "7ZZZZZZZZZZZZZZZZZZZZZZZZZ".                       *)
C12_Witness ==
    /\ codec.pc = "encoded"
    /\ codec.timestamp_ms = <<Limb - 1, Limb - 1>>
    /\ codec.random_bytes = AllFF
    /\ codec.text = <<"7">> \o [k \in 1..25 |-> "Z"]

(* C13: for a canonical identifier that decode accepts, decode of any      *)
(* respelling of it (lowercase letters, i I l L in place of 1, o O in      *)
(* place of 0) returns the same (timestamp_ms, random_bytes).              *)
C13_DecodeLenientSpellings ==
    (pair.pc = "decoded" /\ ~pair.result_a.is_none) =>
        /\ ~pair.result_b.is_none
        /\ pair.result_b.timestamp_ms = pair.result_a.timestamp_ms
        /\ pair.result_b.random_bytes = pair.result_a.random_bytes

(* C13 witness: the lowercase spelling of "01ARZ3NDEKTSV4RRFFQ69G5FAV"     *)
(* has been decoded next to the canonical one, which decode accepts.       *)
C13_Witness ==
    /\ pair.pc = "decoded"
    /\ pair.a = DocExample
    /\ pair.b = LowerStr(DocExample)
    /\ pair.b # pair.a
    /\ ~pair.result_a.is_none

(* C14: decode returns without raising for every input string, and returns *)
(* None whenever the length is not 26 or some character is neither in the  *)
(* alphabet (either case) nor one of the aliases i I l L o O.              *)
C14_DecodeRejectsMalformed ==
    codec.pc = "decoded" =>
        /\ ~codec.decoded.raised
        /\ ( \/ Len(codec.text) # 26
             \/ \E k \in 1..Len(codec.text) : codec.text[k] \notin AcceptedChars )
           => codec.decoded.is_none

(* C14 witness: a 25-character string, a 27-character string and a         *)
(* 26-character string with the letter U are among the decoded inputs; the *)
(* state shown is the one after decoding the string with U.                *)
C14_Witness ==
    /\ codec.pc = "decoded"
    /\ codec.text = ReplaceAt(DocExample, 26, "U")
    /\ codec.decoded.is_none
    /\ SubSeq(DocExample, 1, 25) \in DecodeInputs
    /\ DocExample \o <<"0">> \in DecodeInputs

(* C15: for a 26-character string of accepted characters, decode returns   *)
(* None if the first character has a 5-bit value of 8 or more and a        *)
(* decoded result if it has a value of 7 or less.                          *)
C15_DecodeRejectsOverflowPrefix ==
    ( /\ codec.pc = "decoded"
      /\ Len(codec.text) = 26
      /\ \A k \in 1..26 : codec.text[k] \in AcceptedChars )
    => /\ TableGet(codec.text[1]) >= 8 => codec.decoded.is_none
       /\ TableGet(codec.text[1]) <= 7 =>
             (~codec.decoded.raised /\ ~codec.decoded.is_none)

(* C15 witness: a string starting with "8" has been rejected (the smallest *)
(* prefix that does not fit 128 bits).                                     *)
C15_Witness ==
    /\ codec.pc = "decoded"
    /\ codec.text = <<"8">> \o Tail(SeedZero)
    /\ codec.decoded.is_none

(* C16: encode raises ValueError and returns no string whenever            *)
(* random_bytes is not exactly 10 bytes long, whatever the timestamp.      *)
C16_EncodeRejectsWrongLength ==
    (codec.pc # "call" /\ Len(codec.random_bytes) # 10) =>
        /\ codec.pc = "raised"
        /\ codec.text = ValueError

(* C16 witness: encode has raised for 9 bytes, and the same timestamp with *)
(* 16 bytes (for which the loop would emit 26 characters) is an input too. *)
C16_Witness ==
    /\ codec.pc = "raised"
    /\ Len(codec.random_bytes) = 9
    /\ codec.timestamp_ms = <<0, 1000000>>
    /\ [i \in 1..16 |-> 255] \in AnyLengthRandom

(* b is a plus one as 80-bit big-endian unsigned integers: the trailing    *)
(* 0xFF bytes of a become 0, the byte before them grows by one, the bytes  *)
(* above are kept.                                                         *)
PlusOne(a, b) ==
    \E j \in 1..10 :
        /\ a[j] # 255
        /\ b[j] = a[j] + 1
        /\ \A i \in (j + 1)..10 : a[i] = 255 /\ b[i] = 0
        /\ \A i \in 1..(j - 1) : b[i] = a[i]

(* C20: when next() runs with now_ms <= last_timestamp_ms and last_random  *)
(* is not ten 0xFF bytes, last_timestamp_ms is unchanged and the new       *)
(* last_random is the old one plus one as an 80-bit big-endian unsigned    *)
(* integer, the carry going from byte 9 toward byte 0.                     *)
C20_IncrementAddsOne ==
    \A i \in DOMAIN log :
        LET e == log[i]
        IN  ( /\ e.op = "next"
              /\ ~TsLess(e.pre_ts, e.now_ms)
              /\ e.pre_random # AllFF )
            => /\ e.ts = e.pre_ts
               /\ Len(e.random) = 10
               /\ PlusOne(e.pre_random, e.random)

(* C20 witness: a next() call found 00 .. 00 FF FF at an unchanged         *)
(* timestamp and left 00 .. 01 00 00, the carry crossing two bytes.        *)
C20_Witness ==
    \E i \in DOMAIN log :
        /\ log[i].op = "next"
        /\ log[i].path = "increment"
        /\ log[i].pre_random = CarryRandom
        /\ log[i].random = [k \in 1..10 |-> IF k = 8 THEN 1 ELSE 0]
        /\ log[i].ts = log[i].pre_ts

(* C17: for a class whose metaclass is Singleton, under any interleaving   *)
(* of threads calling the constructor for the first time, __init__ runs at *)
(* most once and all callers receive the same instance.                    *)
C17_MetaclassCreatesOneInstance ==
    /\ meta.created <= 1
    /\ \A i, j \in DOMAIN meta.returned : meta.returned[i] = meta.returned[j]

(* d, d*b, d*b^2, ...: the k waits of an invocation that starts at delay d *)
RECURSIVE Waits(_, _, _)
Waits(d, b, k) == IF k = 0 THEN << >> ELSE <<d>> \o Waits(d * b, b, k - 1)

(* C18: every invocation of a function decorated with                     *)
(* retry_on_exc(E, tries=n, delay=d, backoff=b) in which the function      *)
(* keeps raising E calls it n times, waits d, d*b, d*b^2, ... between the  *)
(* attempts and lets the n-th failure propagate, whatever happened in      *)
(* earlier invocations of the same decorated function.                     *)
C18_EachInvocationHasFullBudget ==
    \A i \in DOMAIN retry.done :
        retry.done[i].outcome = "raised" =>
            /\ retry.done[i].attempts = retry.arg_tries
            /\ retry.done[i].waits =
                  Waits(retry.arg_delay, retry.backoff, retry.arg_tries - 1)

(* C19: wait_for_all_threads(timeout) eventually returns once every        *)
(* tracked task has finished or had its timeout wait elapse, also when a   *)
(* task is still running after the timeout or was cancelled before it      *)
(* began to run.                                                           *)
C19_WaitForAllThreadsReturns ==
    (threader.pc = "wait_events") ~> (threader.pc = "done")

(* The larger of two timestamps. *)
TsMax(a, b) == IF TsLess(a, b) THEN b ELSE a

(* C21: for every next() call, the timestamp embedded in the returned      *)
(* identifier, and last_timestamp_ms after the call, equal the maximum of  *)
(* the call's now_ms and the value last_timestamp_ms had when the call     *)
(* acquired the lock.                                                      *)
C21_TimestampIsMaxOfNowAndLast ==
    [][\A t \in Threads :
          (th[t].pc = "next_encode" /\ th'[t].pc = "idle") =>
              LET g == th[t].self
                  e == log'[Len(log')]
                  m == TsMax(e.now_ms, e.pre_ts)
              IN  /\ e.op = "next"
                  /\ gens'[g].last_timestamp_ms = m
                  /\ SubSeq(e.ulid, 1, 10) = SubSeq(encode(m, ZeroRandom), 1, 10)]_vars

(* C21 witness: a next() call whose time lies before the stored timestamp  *)
(* returned, and another one whose time lies after it.                     *)
C21_Witness ==
    /\ \E i \in DOMAIN log :
          /\ log[i].op = "next"
          /\ TsLess(log[i].now_ms, log[i].pre_ts)
          /\ log[i].ts = log[i].pre_ts
    /\ \E i \in DOMAIN log :
          /\ log[i].op = "next"
          /\ TsLess(log[i].pre_ts, log[i].now_ms)
          /\ log[i].ts = log[i].now_ms

(* C22: when next() runs with now_ms <= last_timestamp_ms and last_random  *)
(* is ten 0xFF bytes, last_timestamp_ms is unchanged, last_random is       *)
(* replaced by ten freshly drawn random bytes, and the identifier returned *)
(* is not below any identifier the generator returned before.              *)
C22_OverflowReseedDoesNotDecrease ==
    \A g \in Gens :
        LET nl == NextLog(g)
        IN  \A j \in 1..Len(nl) :
                ( /\ ~TsLess(nl[j].pre_ts, nl[j].now_ms)
                  /\ nl[j].pre_random = AllFF )
                => /\ nl[j].ts = nl[j].pre_ts
                   /\ nl[j].random \in URandom
                   /\ \A i \in 1..(j - 1) : ~IdLess(nl[j], nl[i])

(* The positions of next() (lines 256-264, with _increment_random) and of  *)
(* seed() (lines 280-291) at which the thread reads or writes              *)
(* _last_timestamp_ms and _last_random.                                    *)
StateAccessing ==
    {"next_cmp", "next_fresh", "next_incr", "next_reseed", "next_encode",
     "seed_cmp", "seed_random", "seed_exit"}

InSection(t) == th[t].pc \in StateAccessing

(* C23: after construction every read and every write of a generator's     *)
(* last_timestamp_ms and last_random, in next(), seed() and                *)
(* _increment_random(), happens while the executing thread holds that      *)
(* generator's lock, and no two threads are inside the state-accessing     *)
(* section of one generator at once.                                       *)
C23_StateAccessedOnlyUnderLock ==
    /\ [](\A t \in Threads : InSection(t) => gens[th[t].self].lock = t)
    /\ [](\A t, u \in Threads :
              (t # u /\ InSection(t) /\ InSection(u)) => th[t].self # th[u].self)
    /\ [][\A g \in Gens :
              ( \/ gens'[g].last_timestamp_ms # gens[g].last_timestamp_ms
                \/ gens'[g].last_random # gens[g].last_random )
              => /\ gens[g].lock # 0
                 /\ th[gens[g].lock].self = g
                 /\ InSection(gens[g].lock)
                 /\ th'[gens[g].lock] # th[gens[g].lock]
                 /\ \A u \in Threads \ {gens[g].lock} : th'[u] = th[u]]_vars

(* C23 witness: one thread has written inside next() and is still in the   *)
(* block while another thread waits for the same generator's lock in       *)
(* seed().                                                                 *)
C23_Witness ==
    \E t, u \in Threads :
        /\ t # u
        /\ th[t].pc = "next_fresh"
        /\ th[u].pc = "seed_lock"
        /\ th[t].self = th[u].self
        /\ gens[th[t].self].lock = t
        /\ gens[th[t].self].last_timestamp_ms # TsZero

(* C24: in next() the current time is read and converted to now_ms after   *)
(* the generator lock has been acquired and before it is released: a       *)
(* thread that is inside next() with its now_ms computed holds the lock of *)
(* its generator.                                                          *)
C24_TimeSampledUnderLock ==
    \A t \in Threads :
        th[t].pc \in {"next_lock", "next_cmp", "next_fresh", "next_incr",
                      "next_reseed", "next_encode"}
        => gens[th[t].self].lock = t

(* The calls of either kind on generator g that reached the lock, with     *)
(* those that raised.                                                      *)
StateLog(g) ==
    SelectSeq(log, LAMBDA e : /\ e.op \in {"next", "next_raised", "seed"}
                              /\ e.path # "invalid"
                              /\ e.gen = g)

(* The state a call leaves is the state it found, or the complete new      *)
(* state of its kind: (now_ms, fresh bytes), (same timestamp, randomness   *)
(* plus one or fresh bytes after ten 0xFF), or the decoded seed.           *)
WholeOutcome(e) ==
    \/ e.ts = e.pre_ts /\ e.random = e.pre_random
    \/ /\ e.op \in {"next", "next_raised"}
       /\ TsLess(e.pre_ts, e.now_ms)
       /\ e.ts = e.now_ms
       /\ e.random \in URandom
    \/ /\ e.op \in {"next", "next_raised"}
       /\ ~TsLess(e.pre_ts, e.now_ms)
       /\ e.ts = e.pre_ts
       /\ \/ PlusOne(e.pre_random, e.random)
          \/ e.pre_random = AllFF /\ e.random \in URandom
    \/ /\ e.op = "seed"
       /\ e.ts = DecodedInputs[e.ulid].timestamp_ms
       /\ e.random = DecodedInputs[e.ulid].random_bytes

(* C25: each next() or seed() call, also one that fails partway through,   *)
(* either commits both last_timestamp_ms and last_random or changes        *)
(* neither, and the state another thread finds when it gets the lock is    *)
(* the state the last call committed, never an intermediate one.           *)
C25_StateChangeIsAllOrNothing ==
    \A g \in Gens :
        LET sl == StateLog(g)
        IN  /\ \A i \in 1..Len(sl) : WholeOutcome(sl[i])
            /\ gens[g].lock = 0 =>
                  IF Len(sl) = 0
                  THEN /\ gens[g].last_timestamp_ms = NewGenerator.last_timestamp_ms
                       /\ gens[g].last_random = NewGenerator.last_random
                  ELSE /\ gens[g].last_timestamp_ms = sl[Len(sl)].ts
                       /\ gens[g].last_random = sl[Len(sl)].random

(* C26: in every state reachable from construction by interleaved next()  *)
(* and seed() calls, last_random holds exactly 10 bytes and                *)
(* last_timestamp_ms lies in 0 .. 2^48-1; the encode call at the end of    *)
(* next() does not raise, and next() returns a 26-character string that    *)
(* decodes to the generator's state at that moment.                        *)
C26_StateInRangeAndNextEncodes ==
    /\ [](\A g \in Gens :
             /\ Len(gens[g].last_random) = 10
             /\ \A i \in 1..10 : gens[g].last_random[i] \in 0..255
             /\ gens[g].last_timestamp_ms[1] \in 0..(Limb - 1)
             /\ gens[g].last_timestamp_ms[2] \in 0..(Limb - 1))
    /\ [][\A t \in Threads :
              (th[t].pc = "next_encode" /\ th'[t].pc = "idle") =>
                  LET g == th[t].self
                      ulid == log'[Len(log')].ulid
                  IN  /\ ulid # ValueError
                      /\ Len(ulid) = 26
                      /\ decode(ulid) = DecodedULID(gens[g].last_timestamp_ms,
                                                    gens[g].last_random)]_vars

(* C26 witness: next() has returned at the date datetime.max, and after    *)
(* the largest seed next() has returned with the timestamp 2^48-1.         *)
C26_Witness ==
    /\ \E i \in DOMAIN log :
          /\ log[i].op = "next"
          /\ log[i].path = "advance"
          /\ log[i].ts = MaxDate
    /\ \E i \in DOMAIN log :
          /\ log[i].op = "next"
          /\ log[i].pre_random = AllFF
          /\ log[i].ts = <<Limb - 1, Limb - 1>>

(* The number of locks thread t holds. *)
HeldLocks(t) ==
    Cardinality({g \in Gens : gens[g].lock = t})
    + (IF generator_lock = t THEN 1 ELSE 0)

(* C27: under fair scheduling every call of next(), seed(),                *)
(* get_ulid_generator() and generate_ulid() eventually returns: no thread  *)
(* holds two of the locks at once, a thread that is not inside a call      *)
(* holds none, and a thread inside a call eventually leaves it.            *)
C27_EveryCallReturns ==
    /\ [](\A t \in Threads :
             /\ HeldLocks(t) <= 1
             /\ th[t].pc = "idle" => HeldLocks(t) = 0)
    /\ \A t \in Threads : (th[t].pc # "idle") ~> (th[t].pc = "idle")

(* C27 witness: two generate_ulid() calls meet at the lock of the          *)
(* module-level generator, one waiting while the other is inside next().   *)
C27_Witness ==
    \E t, u \in Threads :
        /\ t # u
        /\ th[t].via = "module"
        /\ th[u].via = "module"
        /\ th[t].pc = "next_lock"
        /\ th[u].pc = "next_fresh"
        /\ th[t].self = generator_instance
        /\ gens[th[t].self].lock = u

(* k as a 10-byte big-endian value, for k below 2^31. *)
KBytes(k) == [i \in 1..10 |-> IF i >= 7 THEN (k \div 256 ^ (10 - i)) % 256 ELSE 0]

(* C28: on a freshly constructed generator that has not been seeded, the   *)
(* k-th of the next() calls whose time is at or before the epoch           *)
(* (now_ms = 0), with no other call before it, takes the increment path    *)
(* and returns exactly encode(0, k), k written as 10 big-endian bytes.     *)
C28_FreshGeneratorAtEpochCounts ==
    \A g \in Gens :
        LET gl == GenLog(g)
        IN  \A k \in 1..Len(gl) :
                (\A i \in 1..k : gl[i].op = "next" /\ gl[i].now_ms = TsZero)
                => /\ gl[k].path = "increment"
                   /\ gl[k].ulid = encode(TsZero, KBytes(k))

(* C28 witness: three next() calls at or before the epoch were the first   *)
(* calls on the generator, and the third returned                          *)
(* 00000000000000000000000003.                                             *)
C28_Witness ==
    \E g \in Gens :
        LET gl == GenLog(g)
        IN  /\ Len(gl) = 3
            /\ \A i \in 1..3 : gl[i].op = "next" /\ gl[i].now_ms = TsZero
            /\ gl[3].ulid = [i \in 1..26 |-> IF i = 26 THEN "3" ELSE "0"]

(* timestamp_ms mod 2^48 on the pair representation. *)
Mod48(ts) == << ts[1] % Limb, ts[2] >>

(* C29: for a timestamp_ms outside 0 .. 2^48-1 encode neither rejects nor  *)
(* clamps: encode(timestamp_ms, r) is the string encode(timestamp_ms mod   *)
(* 2^48, r), and decoding it yields timestamp_ms mod 2^48, not             *)
(* timestamp_ms.                                                           *)
C29_EncodeTruncatesTimestamp ==
    /\ codec.pc # "raised"
    /\ codec.pc \in {"encoded", "decoded"} =>
          codec.text = encode(Mod48(codec.timestamp_ms), codec.random_bytes)
    /\ codec.pc = "decoded" =>
          /\ ~codec.decoded.is_none
          /\ ~codec.decoded.raised
          /\ codec.decoded.timestamp_ms = Mod48(codec.timestamp_ms)
          /\ codec.decoded.timestamp_ms # codec.timestamp_ms
          /\ codec.decoded.random_bytes = codec.random_bytes

(* C29 witness: encode(-1, FF*10) gave 7ZZZZZZZZZZZZZZZZZZZZZZZZZ, which    *)
(* decodes to the timestamp 2^48-1.                                        *)
C29_Witness ==
    /\ codec.pc = "decoded"
    /\ codec.timestamp_ms = <<-1, Limb - 1>>
    /\ codec.random_bytes = AllFF
    /\ codec.text = SeedMax
    /\ codec.decoded.timestamp_ms = <<Limb - 1, Limb - 1>>

(* The larger of two (timestamp, randomness) pairs as 128-bit big-endian   *)
(* tuples.                                                                 *)
PairMax(a, b) ==
    IF PairLess(a.timestamp_ms, a.random_bytes, b.timestamp_ms, b.random_bytes)
    THEN b ELSE a

StatePair(ts, random) == [timestamp_ms |-> ts, random_bytes |-> random]

(* C30: seed is idempotent and order-independent: for valid x and y, two   *)
(* seed calls that follow one another on a generator, seed(x) then         *)
(* seed(y), leave the maximum of the prior state, decode(x) and decode(y)  *)
(* as 128-bit big-endian tuples, whichever of the two comes first; with    *)
(* y = x the second call changes nothing.                                  *)
C30_SeedIdempotentAndCommutative ==
    \A g \in Gens :
        LET gl == GenLog(g)
        IN  \A i \in 2..Len(gl) :
                LET e1 == gl[i - 1]
                    e2 == gl[i]
                    x == DecodedInputs[e1.ulid]
                    y == DecodedInputs[e2.ulid]
                    prior == StatePair(e1.pre_ts, e1.pre_random)
                IN  ( /\ e1.op = "seed" /\ ~x.is_none
                      /\ e2.op = "seed" /\ ~y.is_none )
                    => /\ StatePair(e2.ts, e2.random)
                            = PairMax(PairMax(prior, StatePair(x.timestamp_ms, x.random_bytes)),
                                      StatePair(y.timestamp_ms, y.random_bytes))
                       /\ StatePair(e2.ts, e2.random)
                            = PairMax(PairMax(prior, StatePair(y.timestamp_ms, y.random_bytes)),
                                      StatePair(x.timestamp_ms, x.random_bytes))
                       /\ e1.ulid = e2.ulid =>
                             StatePair(e2.ts, e2.random) = StatePair(e1.ts, e1.random)

(* C30 witness: on a state below both, seed(000000YGJ10000000000000001)    *)
(* was followed by seed(000000YGJ0ZZZZZZZZZZZZZZZZ), the smaller of the     *)
(* two, and the state is the pair of the first.                            *)
C30_Witness ==
    \E g \in Gens :
        LET gl == GenLog(g)
        IN  \E i \in 2..Len(gl) :
                /\ gl[i - 1].op = "seed" /\ gl[i - 1].ulid = SeedOne
                /\ gl[i - 1].path = "replace"
                /\ gl[i].op = "seed" /\ gl[i].ulid = SeedFF
                /\ gl[i].ts = <<0, 1000001>>
                /\ gl[i].random = OneRandom
                /\ gens[g].last_timestamp_ms = <<0, 1000001>>

====
